---- MODULE Spec2Model ----
(***************************************************************************)
(* A model of lzeroutils: the LZEROServer archive query engine and         *)
(* availability scanner, its request codec and connection handler, and     *)
(* the LZEROClient list decoding.                                          *)
(* server is the LZEROServer object with its listener thread and a call of *)
(* stop().  client is a call of LZEROClient._send_request with the         *)
(* connection it has to the server.                                        *)
(*                                                                         *)
(* Text.  A Python str is a sequence of symbols.  A symbol is a record     *)
(* [k, v]: a single character c is [k |-> c, v |-> 0]; a token whose       *)
(* inner spelling is not modelled is an atom with a kind of more than one  *)
(* character and the value it spells:                                      *)
(*    "date-" / "date/"  a calendar date YYYY-MM-DD / YYYY/MM/DD,          *)
(*                       v = days since 2024-01-01                         *)
(*    "time"             a time of day HH:MM:SS, v = seconds since 00:00   *)
(*    "iso"              an ISO-8601 date-time, v = seconds since          *)
(*                       2024-01-01T00:00:00                               *)
(*    "num"              a decimal number, v = its value                   *)
(* A datetime is the number of seconds since 2024-01-01T00:00:00.          *)
(* A call's outcome is [exc, val]: exc = "none" and the returned value, or *)
(* the name of the exception raised.                                       *)
(***************************************************************************)
EXTENDS Integers, Sequences, FiniteSets, TLC

VARIABLES fs, call, conns, server, client

vars == <<fs, call, conns, server, client>>

----------------------------------------------------------------------------
(* Python values *)

Ch(c) == [k |-> c, v |-> 0]

Atom(kind, val) == [k |-> kind, v |-> val]

Str(cs) == [i \in 1..Len(cs) |-> Ch(cs[i])]

NL == Ch("\n")

SP == Ch(" ")

Ret(v) == [exc |-> "none", val |-> v]

Raise(e) == [exc |-> e, val |-> <<>>]

None == [k |-> "None", v |-> 0]

\* the element of a one-element set: Only({ F(x) : x \in {e} }) is F(e) with
\* e evaluated once, as an assignment x = e followed by F(x)
Only(S) == CHOOSE x \in S : TRUE

RECURSIVE Concat(_)
Concat(ss) == IF ss = <<>> THEN <<>> ELSE Head(ss) \o Concat(Tail(ss))

\* needle in hay, for str operands
IsSubstring(needle, hay) ==
    \E i \in 0..(Len(hay) - Len(needle)) :
        SubSeq(hay, i + 1, i + Len(needle)) = needle

\* hay.index(needle), 0-based, for needle in hay
IndexOf(needle, hay) ==
    CHOOSE i \in 0..(Len(hay) - Len(needle)) :
        /\ SubSeq(hay, i + 1, i + Len(needle)) = needle
        /\ \A j \in 0..(i - 1) : SubSeq(hay, j + 1, j + Len(needle)) # needle

----------------------------------------------------------------------------
(* utils.py: hour letters *)

letters == Str(<<"a", "b", "c", "d", "e", "f", "g", "h", "i", "j", "k", "l",
                 "m", "n", "o", "p", "q", "r", "s", "t", "u", "v", "w", "x">>)

\* letters[hour] read one position too far
HourToLetterShifted(hour) ==
    IF 0 <= hour /\ hour <= 23
    THEN Ret(<<letters[IF hour = 23 THEN 1 ELSE hour + 2]>>)
    ELSE Raise("ValueError")

_hour_to_letter(hour) ==
    IF 0 <= hour /\ hour <= 23
    THEN Ret(<<letters[hour + 1]>>)
    ELSE Raise("ValueError")

_letter_to_hour(letter) ==
    IF IsSubstring(letter, letters)
    THEN Ret(IndexOf(letter, letters))
    ELSE Raise("ValueError")

----------------------------------------------------------------------------
(* datetime arithmetic *)

EpochYear == 2024

SecondsPerHour == 3600

SecondsPerDay == 86400

IsLeap(y) == (y % 4 = 0 /\ y % 100 # 0) \/ y % 400 = 0

DaysInYear(y) == IF IsLeap(y) THEN 366 ELSE 365

\* days from 0001-01-01 to January 1 of year y
DaysBeforeYear(y) ==
    365 * (y - 1) + ((y - 1) \div 4) - ((y - 1) \div 100) + ((y - 1) \div 400)

\* day number (days since 2024-01-01) of datetime(year, 1, 1) + timedelta(doy - 1)
DayNumber(year, doy) == DaysBeforeYear(year) - DaysBeforeYear(EpochYear) + doy - 1

RECURSIVE YearOfDay(_, _)
YearOfDay(day, y) ==
    IF day < DayNumber(y, 1) THEN YearOfDay(day, y - 1)
    ELSE IF day >= DayNumber(y + 1, 1) THEN YearOfDay(day, y + 1)
    ELSE y

\* datetime.year, timetuple().tm_yday, datetime.hour
YearOf(dt) == YearOfDay(dt \div SecondsPerDay, EpochYear)

DoyOf(dt) == (dt \div SecondsPerDay) - DayNumber(YearOf(dt), 1) + 1

HourOf(dt) == (dt % SecondsPerDay) \div SecondsPerHour

DaysInMonth(y, m) ==
    IF m = 2 THEN (IF IsLeap(y) THEN 29 ELSE 28)
    ELSE IF m \in {4, 6, 9, 11} THEN 30 ELSE 31

RECURSIVE MonthOfDoy(_, _, _)
MonthOfDoy(y, d, m) ==
    IF d <= DaysInMonth(y, m) THEN <<m, d>>
    ELSE MonthOfDoy(y, d - DaysInMonth(y, m), m + 1)

\* (month, day) of the date with the given day number
MonthDayOf(day) ==
    LET y == YearOfDay(day, EpochYear)
    IN  MonthOfDoy(y, day - DayNumber(y, 1) + 1, 1)

----------------------------------------------------------------------------
(* number formatting and parsing *)

Digits == <<"0", "1", "2", "3", "4", "5", "6", "7", "8", "9">>

DigitChar(d) == Ch(Digits[d + 1])

IsDigit(sym) == \E d \in 0..9 : sym = DigitChar(d)

DigitValue(sym) == CHOOSE d \in 0..9 : sym = DigitChar(d)

\* str(n) for n >= 0
RECURSIVE StrOfNat(_)
StrOfNat(n) ==
    IF n < 10 THEN <<DigitChar(n)>>
    ELSE StrOfNat(n \div 10) \o <<DigitChar(n % 10)>>

\* f"{n:0{w}d}" for n >= 0
RECURSIVE ZeroPad(_, _)
ZeroPad(s, w) == IF Len(s) >= w THEN s ELSE ZeroPad(<<DigitChar(0)>> \o s, w)

RECURSIVE DigitsValue(_, _)
DigitsValue(s, acc) ==
    IF s = <<>> THEN acc ELSE DigitsValue(Tail(s), 10 * acc + DigitValue(Head(s)))

\* int(s) for a str of decimal digits; anything else raises ValueError
IntOf(s) ==
    IF s # <<>> /\ \A i \in 1..Len(s) : IsDigit(s[i])
    THEN Ret(DigitsValue(s, 0))
    ELSE Raise("ValueError")

----------------------------------------------------------------------------
(* str methods *)

IsSpace(sym) == sym.k \in {" ", "\n", "\t", "\r"}

\* s.lstrip(), s.rstrip(): s from its first, up to its last, character that
\* is no whitespace
LStrip(s) ==
    Only({ SubSeq(x, CHOOSE i \in 1..(Len(x) + 1) :
                        /\ i = Len(x) + 1 \/ ~IsSpace(x[i])
                        /\ \A j \in 1..(i - 1) : IsSpace(x[j]),
                  Len(x)) :
           x \in { s } })

RStrip(s) ==
    Only({ SubSeq(x, 1, CHOOSE i \in 0..Len(x) :
                           /\ i = 0 \/ ~IsSpace(x[i])
                           /\ \A j \in (i + 1)..Len(x) : IsSpace(x[j])) :
           x \in { s } })

\* s.strip()
Strip(s) == RStrip(LStrip(s))

\* the positions of a set in ascending order
InOrder(P) ==
    [k \in 1..Cardinality(P) |->
        CHOOSE p \in P : Cardinality({ q \in P : q < p }) = k - 1]

\* s.split(sep) for a one-character sep: the fields between the separators,
\* always at least one field
Split(s, sep) ==
    Only({ Only({ [k \in 1..(Len(cuts) - 1) |->
                     SubSeq(x, cuts[k] + 1, cuts[k + 1] - 1)] :
                  cuts \in { <<0>> \o InOrder({ i \in 1..Len(x) : x[i] = sep })
                              \o <<Len(x) + 1>> } }) :
           x \in { s } })

\* s.split(): the maximal runs of non-whitespace
SplitWs(s) ==
    Only({ Only({ [k \in 1..Len(first) |-> SubSeq(x, first[k], last[k])] :
                  first \in { InOrder({ i \in 1..Len(x) :
                                          /\ ~IsSpace(x[i])
                                          /\ i = 1 \/ IsSpace(x[i - 1]) }) },
                  last \in { InOrder({ i \in 1..Len(x) :
                                         /\ ~IsSpace(x[i])
                                         /\ i = Len(x) \/ IsSpace(x[i + 1]) }) } }) :
           x \in { s } })

\* sep.join(parts)
RECURSIVE Join(_, _)
Join(sep, parts) ==
    IF parts = <<>> THEN <<>>
    ELSE IF Len(parts) = 1 THEN parts[1]
    ELSE parts[1] \o sep \o Join(sep, Tail(parts))

\* s.replace('/', '-'): a date atom spelled with slashes becomes one spelled
\* with dashes
ReplaceSlash(s) ==
    [i \in 1..Len(s) |->
        IF s[i] = Ch("/") THEN Ch("-")
        ELSE IF s[i].k = "date/" THEN Atom("date-", s[i].v)
        ELSE s[i]]

\* datetime.datetime.fromisoformat(s)
FromIsoFormat(s) ==
    IF Len(s) = 1 /\ s[1].k = "iso" THEN Ret(s[1].v)
    ELSE IF /\ Len(s) = 3
            /\ s[1].k = "date-"
            /\ s[2] \in {Ch("T"), SP}
            /\ s[3].k = "time"
         THEN Ret(s[1].v * SecondsPerDay + s[3].v)
         ELSE Raise("ValueError")

\* f.readlines(): the lines of a text, each keeping its line end; cur is the
\* part of the first line read before text
ReadLinesFrom(text, cur) ==
    Only({ Only({ [k \in 1..(Len(ends) - 1) |->
                     SubSeq(x, ends[k] + 1, ends[k + 1])] :
                  ends \in { <<0>> \o InOrder({ i \in 1..Len(x) :
                                                   x[i] = NL \/ i = Len(x) }) } }) :
           x \in { cur \o text } })

----------------------------------------------------------------------------
(* The archive: fs maps a path below the archive root (a sequence of entry *)
(* names) to its directory entry.                                          *)

DirNode == [kind |-> "dir", text |-> <<>>, readable |-> TRUE]

FileNode(text, readable) == [kind |-> "file", text |-> text, readable |-> readable]

\* os.path.isdir, os.path.isfile
IsDir(fsv, path) == path \in DOMAIN fsv /\ fsv[path].kind = "dir"

IsFile(fsv, path) == path \in DOMAIN fsv /\ fsv[path].kind = "file"

\* os.listdir(path), as a set: the order is the operating system's
ListDir(fsv, path) ==
    { q[Len(path) + 1] :
        q \in { p \in DOMAIN fsv :
                  Len(p) = Len(path) + 1 /\ SubSeq(p, 1, Len(path)) = path } }

Prefixes(path) == { SubSeq(path, 1, n) : n \in 1..(Len(path) - 1) }

\* the file system holding the given entries (records [path, node]) and the
\* directories above them
MkFs(entries) ==
    LET leaves == { e.path : e \in entries }
        dirs == UNION { Prefixes(p) : p \in leaves } \ leaves
    IN  [p \in leaves \cup dirs |->
            IF p \in leaves
            THEN (CHOOSE e \in entries : e.path = p).node
            ELSE DirNode]

----------------------------------------------------------------------------
(* server.py: the query engine *)

\* utils._doy_to_monthday_str
_doy_to_monthday_str(year, doy) ==
    LET md == MonthDayOf(DayNumber(year, doy))
    IN  ZeroPad(StrOfNat(md[1]), 2) \o Str(<<".">>) \o ZeroPad(StrOfNat(md[2]), 2)

_build_filepath(station, year, doy, hour) ==
    LET letter == _hour_to_letter(hour).val
        doy3 == ZeroPad(StrOfNat(doy), 3)
        dot == Str(<<".">>)
        filename == station \o dot \o StrOfNat(year) \o dot
                    \o _doy_to_monthday_str(year, doy) \o dot
                    \o doy3 \o dot \o letter \o Str(<<".", "p", "o", "s">>)
    IN  <<station, StrOfNat(year), doy3, letter, filename>>

_read_file_lines(fsv, filepath) ==
    Only({ IF node.readable THEN Ret(ReadLinesFrom(node.text, <<>>))
           ELSE Raise("OSError") :
           node \in { fsv[filepath] } })

_parse_line_time(line) ==
    Only({ IF Len(parts) < 2 THEN None
           ELSE Only({ IF dt.exc = "none" THEN Atom("datetime", dt.val) ELSE None :
                       dt \in { FromIsoFormat(ReplaceSlash(parts[1])
                                              \o Str(<<"T">>) \o parts[2]) } }) :
           parts \in { SplitWs(Strip(line)) } })

\* the bound test without its upper half
InBoundsNoUpper(line_time, start_dt, end_dt) ==
    line_time # None /\ start_dt <= line_time.v

InBounds(line_time, start_dt, end_dt) ==
    line_time # None /\ start_dt <= line_time.v /\ line_time.v <= end_dt

\* the filter that hands back the lines that pass last line first
RECURSIVE FilterLinesLastFirst(_, _, _)
FilterLinesLastFirst(lines, start_dt, end_dt) ==
    IF lines = <<>> THEN <<>>
    ELSE FilterLinesLastFirst(Tail(lines), start_dt, end_dt)
         \o (IF InBounds(_parse_line_time(Head(lines)), start_dt, end_dt)
             THEN <<Head(lines)>> ELSE <<>>)

\* the lines of one file that pass the filter, in file order
RECURSIVE FilterLines(_, _, _)
FilterLines(lines, start_dt, end_dt) ==
    IF lines = <<>> THEN <<>>
    ELSE (IF InBounds(_parse_line_time(Head(lines)), start_dt, end_dt)
          THEN <<Head(lines)>> ELSE <<>>)
         \o FilterLines(Tail(lines), start_dt, end_dt)

\* the loop body without its os.path.isfile test: open() of a missing file
VisitBucketUnchecked(fsv, filepath, start_dt, end_dt) ==
    IF IsFile(fsv, filepath) /\ fsv[filepath].readable
    THEN Ret(FilterLines(ReadLinesFrom(fsv[filepath].text, <<>>), start_dt, end_dt))
    ELSE Raise("OSError")

\* one pass of the loop body over the bucket file: the lines it appends
VisitBucket(fsv, filepath, start_dt, end_dt) ==
    IF IsFile(fsv, filepath)
    THEN Only({ IF lines.exc # "none" THEN lines
                ELSE Ret(FilterLines(lines.val, start_dt, end_dt)) :
                lines \in { _read_file_lines(fsv, filepath) } })
    ELSE Ret(<<>>)

\* the while loop of _get_pos_data from current_dt on: the outcome, with the
\* file paths resolved so far
RECURSIVE GetPosLoop(_, _, _, _, _, _, _)
GetPosLoop(fsv, station, start_dt, end_dt, current_dt, result, visited) ==
    IF ~(current_dt <= end_dt)
    THEN [exc |-> "none", val |-> result, visited |-> visited]
    ELSE Only({
           Only({ IF got.exc # "none"
                  THEN [exc |-> got.exc, val |-> <<>>,
                        visited |-> Append(visited, filepath)]
                  ELSE GetPosLoop(fsv, station, start_dt, end_dt,
                                  current_dt + SecondsPerHour, result \o got.val,
                                  Append(visited, filepath)) :
                  got \in { VisitBucket(fsv, filepath, start_dt, end_dt) } }) :
           filepath \in { _build_filepath(station, YearOf(current_dt),
                                          DoyOf(current_dt), HourOf(current_dt)) } })

\* the query whose loop starts an hour before start_dt
GetPosDataFromHourBefore(fsv, station, start_dt, end_dt) ==
    GetPosLoop(fsv, station, start_dt, end_dt, start_dt - SecondsPerHour, <<>>, <<>>)

_get_pos_data(fsv, station, start_dt, end_dt) ==
    GetPosLoop(fsv, station, start_dt, end_dt, start_dt, <<>>, <<>>)

----------------------------------------------------------------------------
(* server.py: the availability scanner *)

\* the characters of entry names, in code point order
CodePoints == <<" ", "#", "-", ".", "/",
                "0", "1", "2", "3", "4", "5", "6", "7", "8", "9",
                "A", "B", "C", "D", "E", "F", "G", "H", "I", "J", "K", "L", "M",
                "N", "O", "P", "Q", "R", "S", "T", "U", "V", "W", "X", "Y", "Z",
                "_",
                "a", "b", "c", "d", "e", "f", "g", "h", "i", "j", "k", "l", "m",
                "n", "o", "p", "q", "r", "s", "t", "u", "v", "w", "x", "y", "z">>

Ord(sym) == CHOOSE i \in 1..Len(CodePoints) : CodePoints[i] = sym.k

\* a < b for str
RECURSIVE StrLess(_, _)
StrLess(a, b) ==
    IF b = <<>> THEN FALSE
    ELSE IF a = <<>> THEN TRUE
    ELSE IF Head(a) = Head(b) THEN StrLess(Tail(a), Tail(b))
    ELSE Ord(Head(a)) < Ord(Head(b))

\* sorted(names) for a set of str
RECURSIVE SortedNames(_)
SortedNames(names) ==
    IF names = {} THEN <<>>
    ELSE LET least == CHOOSE n \in names : \A m \in names \ {n} : StrLess(n, m)
         IN  <<least>> \o SortedNames(names \ {least})

\* list.sort() for datetimes
RECURSIVE Insert(_, _)
Insert(t, sorted) ==
    IF sorted = <<>> THEN <<t>>
    ELSE IF t <= Head(sorted) THEN <<t>> \o sorted
    ELSE <<Head(sorted)>> \o Insert(t, Tail(sorted))

RECURSIVE SortTimes(_)
SortTimes(times) ==
    IF times = <<>> THEN <<>> ELSE Insert(Head(times), SortTimes(Tail(times)))

\* utils._doy_to_ymd_str followed by strptime: the day the string names
_doy_to_ymd_str(year, doy) ==
    IF year < 1 \/ year > 9999 THEN Raise("ValueError")
    ELSE Ret(DayNumber(year, doy))

\* utils._format_interval: strftime to milliseconds of both ends
_format_interval(start_dt, end_dt) ==
    Str(<<"F", "r", "o", "m", " ">>) \o <<Atom("iso", start_dt)>>
    \o Str(<<" ", "T", "o", " ">>) \o <<Atom("iso", end_dt)>>

\* hour_letter in hour_map, hour_map[hour_letter]
InHourMap(name) == Len(name) = 1 /\ \E i \in 1..Len(letters) : letters[i] = name[1]

HourMap(name) == (CHOOSE i \in 1..Len(letters) : letters[i] = name[1]) - 1

\* the body of the innermost loop: the datetimes it appends
ScanHourEntry(fsv, doy_path, year, doy, hour_letter) ==
    IF ~IsDir(fsv, Append(doy_path, hour_letter)) THEN Ret(<<>>)
    ELSE IF ~InHourMap(hour_letter) THEN Ret(<<>>)
    ELSE Only({
           IF y.exc # "none" THEN y
           ELSE IF d.exc # "none" THEN d
           ELSE Only({ IF day.exc # "none" THEN day
                       ELSE Ret(<<day.val * SecondsPerDay
                                  + HourMap(hour_letter) * SecondsPerHour>>) :
                       day \in { _doy_to_ymd_str(y.val, d.val) } }) :
           y \in { IntOf(year) }, d \in { IntOf(doy) } })

RECURSIVE ScanHours(_, _, _, _, _, _)
ScanHours(fsv, doy_path, year, doy, names, times) ==
    IF names = <<>> THEN Ret(times)
    ELSE Only({ IF got.exc # "none" THEN got
                ELSE ScanHours(fsv, doy_path, year, doy, Tail(names),
                               times \o got.val) :
                got \in { ScanHourEntry(fsv, doy_path, year, doy, Head(names)) } })

RECURSIVE ScanDoys(_, _, _, _, _)
ScanDoys(fsv, year_path, year, names, times) ==
    IF names = <<>> THEN Ret(times)
    ELSE Only({
           IF ~IsDir(fsv, doy_path)
           THEN ScanDoys(fsv, year_path, year, Tail(names), times)
           ELSE Only({ IF got.exc # "none" THEN got
                       ELSE ScanDoys(fsv, year_path, year, Tail(names), got.val) :
                       got \in { ScanHours(fsv, doy_path, year, doy, hours, times) :
                                 doy \in { Head(names) },
                                 hours \in { SortedNames(ListDir(fsv, doy_path)) } } }) :
           doy_path \in { Append(year_path, Head(names)) } })

RECURSIVE ScanYears(_, _, _, _)
ScanYears(fsv, station_path, names, times) ==
    IF names = <<>> THEN Ret(times)
    ELSE Only({
           IF ~IsDir(fsv, year_path)
           THEN ScanYears(fsv, station_path, Tail(names), times)
           ELSE Only({ IF got.exc # "none" THEN got
                       ELSE ScanYears(fsv, station_path, Tail(names), got.val) :
                       got \in { ScanDoys(fsv, year_path, year, doys, times) :
                                 year \in { Head(names) },
                                 doys \in { SortedNames(ListDir(fsv, year_path)) } } }) :
           year_path \in { Append(station_path, Head(names)) } })

\* the merge loop over times[1:]
RECURSIVE MergeRuns(_, _, _, _)
MergeRuns(rest, start, end, intervals) ==
    IF rest = <<>> THEN Append(intervals, _format_interval(start, end))
    ELSE IF Head(rest) = end + SecondsPerHour
         THEN MergeRuns(Tail(rest), start, Head(rest), intervals)
         ELSE MergeRuns(Tail(rest), Head(rest), Head(rest),
                        Append(intervals, _format_interval(start, end)))

list_available_time(fsv, station) ==
    IF ~IsDir(fsv, <<station>>) THEN Ret(<<>>)
    ELSE Only({
           IF got.exc # "none" THEN got
           ELSE Only({ IF times = <<>> THEN Ret(<<>>)
                       ELSE Ret(MergeRuns(Tail(times), times[1], times[1], <<>>)) :
                       times \in { SortTimes(got.val) } }) :
           got \in { ScanYears(fsv, <<station>>, years, <<>>) :
                     years \in { SortedNames(ListDir(fsv, <<station>>)) } } })

----------------------------------------------------------------------------
(* server.py: the request codec *)

LowerCase == { CodePoints[i] : i \in 43..68 }

\* c.upper() for one character
UpperChar(sym) ==
    IF sym.k \in LowerCase THEN Ch(CodePoints[Ord(sym) - 27]) ELSE sym

\* s.upper()
Upper(s) == Only({ [i \in DOMAIN x |-> UpperChar(x[i])] : x \in {s} })

LIST_STATIONS == Str(<<"L", "I", "S", "T", "_", "S", "T", "A", "T", "I", "O", "N", "S">>)

GET_DATA == Str(<<"G", "E", "T", "_", "D", "A", "T", "A">>)

LIST_TIME == Str(<<"L", "I", "S", "T", "_", "T", "I", "M", "E">>)

ErrGetData ==
    Str(<<"E", "R", "R", "O", "R", ":", " ", "G", "E", "T", "_", "D", "A",
          "T", "A", " ", "r", "e", "q", "u", "i", "r", "e", "s", " ", "s",
          "t", "a", "t", "i", "o", "n", ",", "s", "t", "a", "r", "t", ",",
          "e", "n", "d", ".", "\n">>)

ErrDatetime ==
    Str(<<"E", "R", "R", "O", "R", ":", " ", "I", "n", "v", "a", "l", "i",
          "d", " ", "d", "a", "t", "e", "t", "i", "m", "e", " ", "f", "o",
          "r", "m", "a", "t", ".", "\n">>)

ErrListTime ==
    Str(<<"E", "R", "R", "O", "R", ":", " ", "L", "I", "S", "T", "_", "T",
          "I", "M", "E", " ", "r", "e", "q", "u", "i", "r", "e", "s", " ",
          "s", "t", "a", "t", "i", "o", "n", ".", "\n">>)

ErrUnknown(command) ==
    Str(<<"E", "R", "R", "O", "R", ":", " ", "U", "n", "k", "n", "o", "w",
          "n", " ", "c", "o", "m", "m", "a", "n", "d", " ">>)
    \o command \o Str(<<".", "\n">>)

\* the directories among the names, in the order os.listdir gave them
RECURSIVE OnlyDirs(_, _)
OnlyDirs(fsv, names) ==
    IF names = <<>> THEN <<>>
    ELSE (IF IsDir(fsv, <<Head(names)>>) THEN <<Head(names)>> ELSE <<>>)
         \o OnlyDirs(fsv, Tail(names))

\* listing is os.listdir(self.root)
list_available_stations(fsv, listing) == OnlyDirs(fsv, listing)

\* '\n'.join(lines) + '\n'
JoinLines(lines) == Join(<<NL>>, lines) \o <<NL>>

\* the GET_DATA branch
ProcessGetData(fsv, parts) ==
    IF Len(parts) # 4 THEN Ret(ErrGetData)
    ELSE Only({
           IF start_dt.exc # "none" \/ end_dt.exc # "none" THEN Ret(ErrDatetime)
           ELSE Only({ IF lines.exc # "none" THEN Raise(lines.exc)
                       ELSE Ret(JoinLines(lines.val)) :
                       lines \in { _get_pos_data(fsv, parts[2], start_dt.val,
                                                 end_dt.val) } }) :
           start_dt \in { FromIsoFormat(parts[3]) },
           end_dt \in { FromIsoFormat(parts[4]) } })

\* the LIST_TIME branch
ProcessListTime(fsv, parts) ==
    IF Len(parts) # 2 THEN Ret(ErrListTime)
    ELSE Only({ IF dates.exc # "none" THEN dates ELSE Ret(JoinLines(dates.val)) :
                dates \in { list_available_time(fsv, parts[2]) } })

_process_request(fsv, request, listing) ==
    Only({
      Only({ IF command = LIST_STATIONS
             THEN Ret(JoinLines(list_available_stations(fsv, listing)))
             ELSE IF command = GET_DATA THEN ProcessGetData(fsv, parts)
             ELSE IF command = LIST_TIME THEN ProcessListTime(fsv, parts)
             ELSE Ret(ErrUnknown(command)) :
             command \in { Upper(parts[1]) } }) :
      parts \in { Split(Strip(request), Ch(",")) } })

----------------------------------------------------------------------------
(* client.py: the list requests *)

\* the decoding that keeps the one empty line of an empty list
ClientDecodeKeepEmpty(response) == Split(Strip(response), NL)

\* lines = response.strip().split('\n'); lines if lines != [''] else []
ClientDecodeList(response) ==
    Only({ IF lines # << <<>> >> THEN lines ELSE <<>> :
           lines \in { Split(Strip(response), NL) } })

----------------------------------------------------------------------------
(* client.py: the POS response parser.  A token of decimal digits is read by
   int and by float, a num atom (a number written with a fraction) by float
   alone, anything else by neither *)

\* float(s)
FloatOf(s) ==
    IF Len(s) = 1 /\ s[1].k = "num" THEN Ret(s[1].v) ELSE IntOf(s)

\* the keys of result, in the order of the appends
FieldNames ==
    <<"datetime", "lat", "lon", "h", "fix", "nsat", "dx", "dy", "dz",
      "vx", "vy", "vz", "pdop", "temp">>

Fields == { FieldNames[k] : k \in 1..Len(FieldNames) }

\* the fields converted by int
IntFields == { "fix", "nsat" }

\* line.startswith('ERROR')
StartsWithError(line) ==
    Len(line) >= 5 /\ SubSeq(line, 1, 5) = Str(<<"E", "R", "R", "O", "R">>)

\* the value the k-th append evaluates: parts[0] + 'T' + parts[1], or the
\* conversion of parts[k]
FieldValue(parts, k) ==
    IF k = 1
    THEN (IF Len(parts) < 2 THEN Raise("IndexError")
          ELSE Ret(parts[1] \o Str(<<"T">>) \o parts[2]))
    ELSE IF Len(parts) < k + 1 THEN Raise("IndexError")
    ELSE IF FieldNames[k] \in IntFields THEN IntOf(parts[k + 1])
    ELSE FloatOf(parts[k + 1])

\* the try block from its k-th append on: an IndexError or ValueError leaves
\* the block, keeping what was appended before
RECURSIVE AppendFields(_, _, _)
AppendFields(result, parts, k) ==
    IF k > Len(FieldNames) THEN result
    ELSE Only({ IF v.exc # "none" THEN result
                ELSE AppendFields([result EXCEPT ![FieldNames[k]] = Append(@, v.val)],
                                  parts, k + 1) :
                v \in { FieldValue(parts, k) } })

\* the body of the loop over the lines
ParseLine(result, rawline) ==
    Only({ IF line # <<>> /\ ~StartsWithError(line)
           THEN Only({ AppendFields(result, [parts EXCEPT ![1] = ReplaceSlash(@)], 1) :
                       parts \in { SplitWs(line) } })
           ELSE result :
           line \in { Strip(rawline) } })

RECURSIVE ParseLines(_, _)
ParseLines(result, lines) ==
    IF lines = <<>> THEN result
    ELSE ParseLines(ParseLine(result, Head(lines)), Tail(lines))

_parse_response(response) ==
    ParseLines([f \in Fields |-> <<>>], Split(Strip(response), NL))

----------------------------------------------------------------------------
(* utils.py: the displacement chunker.  Datetimes are seconds, so that a
   delta d deviates from the nominal interval m by more than m * 0.5 exactly
   when 2 * |d - m| > m *)

\* the keys convert_to_streams asks for
StreamKeys == { "datetime", "lon", "lat", "h" }

\* pyproj's projection of one coordinate: easting and northing are values
\* that depend on both lon and lat
_lonlat_to_utm(coords) ==
    [i \in 1..Len(coords) |->
        << <<"easting", coords[i][1], coords[i][2]>>,
           <<"northing", coords[i][1], coords[i][2]>> >>]

\* list(zip(a, b)): as long as the shorter list
Zip(a, b) ==
    [i \in 1..(IF Len(a) <= Len(b) THEN Len(a) ELSE Len(b)) |-> <<a[i], b[i]>>]

\* the datetimes of data['datetime'], or the first ValueError of fromisoformat
RECURSIVE ParseTimes(_, _)
ParseTimes(texts, times) ==
    IF texts = <<>> THEN Ret(times)
    ELSE Only({ IF t.exc # "none" THEN t
                ELSE ParseTimes(Tail(texts), Append(times, t.val)) :
                t \in { FromIsoFormat(ReplaceSlash(Head(texts))) } })

\* the deltas of consecutive datetimes, in seconds
Deltas(times) == [i \in 1..(Len(times) - 1) |-> times[i + 1] - times[i]]

Abs(n) == IF n < 0 THEN 0 - n ELSE n

\* the test made against the whole nominal interval instead of its half
DeviatesByWhole(delta, dt_median) == Abs(delta - dt_median) > dt_median

\* abs(delta - dt_median) > dt_median * 0.5
Deviates(delta, dt_median) == 2 * Abs(delta - dt_median) > dt_median

\* the extraction that leaves out the last index of the chunk
ExtractChunkOpenEnd(x, y, z, times, indices, dt) ==
    Ret([starttime |-> <<Atom("iso", times[indices[1] + 1])>>,
         delta |-> dt,
         x_data |-> [k \in 1..(Len(indices) - 1) |-> x[indices[k] + 1]],
         y_data |-> [k \in 1..(Len(indices) - 1) |-> y[indices[k] + 1]],
         z_data |-> [k \in 1..(Len(indices) - 1) |-> z[indices[k] + 1]]])

\* indices are 0-based as in the code; lists are read at index + 1
_extract_displacement_chunk(x, y, z, times, indices, dt) ==
    IF \E k \in 1..Len(indices) :
           indices[k] + 1 > Len(x) \/ indices[k] + 1 > Len(y) \/ indices[k] + 1 > Len(z)
    THEN Raise("IndexError")
    ELSE Ret([starttime |-> <<Atom("iso", times[indices[1] + 1])>>,
              delta |-> dt,
              x_data |-> [k \in 1..Len(indices) |-> x[indices[k] + 1]],
              y_data |-> [k \in 1..Len(indices) |-> y[indices[k] + 1]],
              z_data |-> [k \in 1..Len(indices) |-> z[indices[k] + 1]]])

\* the for loop from index i on and the trailing extraction; ranges keeps
\* the index lists handed to _extract_displacement_chunk
RECURSIVE ChunkLoop(_, _, _, _, _, _, _, _, _)
ChunkLoop(x, y, z, times, dt_median, i, indices, chunks, ranges) ==
    IF i >= Len(times) \/ Deviates(times[i + 1] - times[i], dt_median)
    THEN Only({ IF chunk.exc # "none"
                THEN [exc |-> chunk.exc, val |-> <<>>, ranges |-> ranges]
                ELSE IF i >= Len(times)
                THEN [exc |-> "none", val |-> Append(chunks, chunk.val),
                      ranges |-> Append(ranges, indices)]
                ELSE ChunkLoop(x, y, z, times, dt_median, i + 1, <<i>>,
                               Append(chunks, chunk.val), Append(ranges, indices)) :
                chunk \in { _extract_displacement_chunk(x, y, z, times, indices,
                                                       dt_median) } })
    ELSE ChunkLoop(x, y, z, times, dt_median, i + 1, Append(indices, i), chunks, ranges)

\* fewer than two samples answered by an empty list of chunks
StreamsOfUnchecked(times, utms, z) ==
    IF Len(times) < 2 THEN [exc |-> "none", val |-> <<>>, ranges |-> <<>>]
    ELSE Only({ ChunkLoop([k \in 1..Len(utms) |-> utms[k][1]],
                          [k \in 1..Len(utms) |-> utms[k][2]],
                          z, times, dt_median, 1, <<0>>, <<>>, <<>>) :
                dt_median \in { SortTimes(Deltas(times))[((Len(times) - 1) \div 2) + 1] } })

\* convert_to_streams after the key test and the conversions
StreamsOf(times, utms, z) ==
    IF Len(times) < 2 THEN [exc |-> "ValueError", val |-> <<>>, ranges |-> <<>>]
    ELSE Only({ ChunkLoop([k \in 1..Len(utms) |-> utms[k][1]],
                          [k \in 1..Len(utms) |-> utms[k][2]],
                          z, times, dt_median, 1, <<0>>, <<>>, <<>>) :
                dt_median \in { SortTimes(Deltas(times))[((Len(times) - 1) \div 2) + 1] } })

convert_to_streams(data) ==
    IF ~(StreamKeys \subseteq DOMAIN data)
    THEN [exc |-> "ValueError", val |-> <<>>, ranges |-> <<>>]
    ELSE Only({ IF times.exc # "none"
                THEN [exc |-> times.exc, val |-> <<>>, ranges |-> <<>>]
                ELSE StreamsOf(times.val, _lonlat_to_utm(Zip(data.lon, data.lat)),
                               data.h) :
                times \in { ParseTimes(data.datetime, <<>>) } })

----------------------------------------------------------------------------
(* Archives and requests of the query engine's specification *)

NumBuckets == 3

MaxLines == 2

FLEE == Str(<<"F", "L", "E", "E">>)

\* 2024-12-31T22:00:00, so that the buckets cross a day and a year boundary
WindowStart == DayNumber(2024, 366) * SecondsPerDay + 22 * SecondsPerHour

BucketStarts == { WindowStart + b * SecondsPerHour : b \in 0..(NumBuckets - 1) }

\* 45 minutes into the hour
LateOffset == 45 * 60

\* the datetimes of requests and records: each bucket's start and its 45th minute
Instants == BucketStarts \cup { t + LateOffset : t \in BucketStarts }

DateOf(t) == t \div SecondsPerDay

TimeOf(t) == t % SecondsPerDay

\* a POS record line, its date written with slashes or with dashes
PosLine(t, slashes) ==
    <<Atom(IF slashes THEN "date/" ELSE "date-", DateOf(t)), SP,
      Atom("time", TimeOf(t)), SP, Atom("num", 45), NL>>

CommentLine == <<Ch("#"), SP, Atom("num", 45), NL>>

\* the lines a bucket's file may hold
BucketLines(b) == { PosLine(b, TRUE), PosLine(b + LateOffset, FALSE), CommentLine }

SeqsUpTo(S, n) == UNION { [1..m -> S] : m \in 0..n }

BucketPath(station, b) == _build_filepath(station, YearOf(b), DoyOf(b), HourOf(b))

\* the sets of bucket files over the given buckets holding at most n lines:
\* each bucket's file is absent or holds lines of the bucket
RECURSIVE BucketFiles(_, _)
BucketFiles(buckets, n) ==
    IF buckets = {} THEN { {} }
    ELSE LET b == CHOOSE x \in buckets : TRUE
         IN  BucketFiles(buckets \ {b}, n)
             \cup UNION { { rest \cup { [path |-> BucketPath(FLEE, b),
                                         node |-> FileNode(Concat(ls), TRUE)] } :
                            rest \in BucketFiles(buckets \ {b}, n - Len(ls)) } :
                          ls \in SeqsUpTo(BucketLines(b), n) }

QueryArchives == { MkFs(entries) : entries \in BucketFiles(BucketStarts, MaxLines) }

\* the LZEROServer after __init__, and after start() on it.  sock is
\* self.sock, open tells whether the socket object start() created is open,
\* loop is the position of the listener thread in _accept_loop ("none"
\* before start()), conn is the request written to a connection that accept
\* returned, stop is the position of a call of stop() ("none": not called)
\* and start that of a call of start()
Constructed ==
    [sock |-> "None", open |-> FALSE, running |-> FALSE, loop |-> "none",
     conn |-> <<>>, stop |-> "none", start |-> "none", error |-> "none",
     wakes |-> FALSE]

Started ==
    [Constructed EXCEPT !.sock = "socket", !.open = TRUE, !.running = TRUE,
                        !.loop = "while"]

\* no call of _send_request.  In a call, wire holds what sendall has written
\* and the connection has not yet delivered to the handler, read counts the
\* symbols of the handler's writes that recv has returned, chunks is the
\* list of the same name and out the outcome of the call
NoClient ==
    [pc |-> "none", request |-> <<>>, wire |-> <<>>, read |-> 0,
     chunks |-> <<>>, out |-> Ret(<<>>)]

Idle == [op |-> "none", args |-> <<>>, out |-> Ret(<<>>)]

InitQuery ==
    /\ fs \in QueryArchives
    /\ call = Idle
    /\ conns = <<>>
    /\ server = Constructed
    /\ client = NoClient

\* a call of _get_pos_data on the archive
GetPosData(station, start_dt, end_dt) ==
    /\ call.op = "none"
    /\ call' = [op |-> "_get_pos_data",
                args |-> <<station, start_dt, end_dt>>,
                out |-> _get_pos_data(fs, station, start_dt, end_dt)]
    /\ UNCHANGED <<fs, conns, server, client>>

\* the call returns to its caller
Return ==
    /\ call.op # "none"
    /\ call' = Idle
    /\ UNCHANGED <<fs, conns, server, client>>

NextQuery ==
    \/ \E start_dt \in Instants, end_dt \in Instants :
           GetPosData(FLEE, start_dt, end_dt)
    \/ Return

SpecQuery == InitQuery /\ [][NextQuery]_vars

----------------------------------------------------------------------------
(* Directory trees of the scanner's specification *)

Y2024 == Str(<<"2", "0", "2", "4">>)

Y2025 == Str(<<"2", "0", "2", "5">>)

HourDir(year, doy, letter) ==
    [path |-> <<FLEE, year, Str(doy), Str(<<letter>>)>>, node |-> DirNode]

\* hour directories of one station from 2024-12-31T22 on: two hours before the
\* year ends, hours 0, 1, 2, 5, 6 of 2025-01-01
BucketDirs ==
    { HourDir(Y2024, <<"3", "6", "6">>, "w"), HourDir(Y2024, <<"3", "6", "6">>, "x"),
      HourDir(Y2025, <<"0", "0", "1">>, "a"), HourDir(Y2025, <<"0", "0", "1">>, "b"),
      HourDir(Y2025, <<"0", "0", "1">>, "c"), HourDir(Y2025, <<"0", "0", "1">>, "f"),
      HourDir(Y2025, <<"0", "0", "1">>, "g") }

\* entries that are no hour bucket of the archive layout: a letter past x, a
\* file named like an hour, a file beside the years, an empty directory beside
\* the days, hour directories below a day written without padding and below
\* a year that is no number
OddEntries ==
    { HourDir(Y2025, <<"0", "0", "1">>, "y"),
      [path |-> <<FLEE, Y2025, Str(<<"0", "0", "1">>), Str(<<"d">>)>>,
       node |-> FileNode(<<>>, TRUE)],
      [path |-> <<FLEE, Str(<<"R", "E", "A", "D", "M", "E">>)>>,
       node |-> FileNode(<<>>, TRUE)],
      [path |-> <<FLEE, Y2025, Str(<<"t", "m", "p">>)>>, node |-> DirNode],
      HourDir(Y2025, <<"1">>, "a"),
      HourDir(Str(<<"o", "l", "d">>), <<"0", "0", "1">>, "a") }

ScanArchives == { MkFs(entries) : entries \in SUBSET (BucketDirs \cup OddEntries) }

InitScan ==
    /\ fs \in ScanArchives
    /\ call = Idle
    /\ conns = <<>>
    /\ server = Constructed
    /\ client = NoClient

\* a call of list_available_time on the archive
ListAvailableTime(station) ==
    /\ call.op = "none"
    /\ call' = [op |-> "list_available_time",
                args |-> <<station>>,
                out |-> list_available_time(fs, station)]
    /\ UNCHANGED <<fs, conns, server, client>>

NextScan ==
    \/ ListAvailableTime(FLEE)
    \/ Return

SpecScan == InitScan /\ [][NextScan]_vars

----------------------------------------------------------------------------
(* Hours and letters of the mapping's specification *)

MaxLetterLen == 2

HourInputs == (0 - 3)..26

\* the 24 letters and four characters that are none of them
LetterChars ==
    { letters[i] : i \in 1..Len(letters) } \cup { Ch("y"), Ch("z"), Ch("A"), SP }

LetterInputs == SeqsUpTo(LetterChars, MaxLetterLen)

InitLetters ==
    /\ fs = <<>>
    /\ call = Idle
    /\ conns = <<>>
    /\ server = Constructed
    /\ client = NoClient

HourToLetter(hour) ==
    /\ call.op = "none"
    /\ call' = [op |-> "_hour_to_letter", args |-> <<hour>>, out |-> _hour_to_letter(hour)]
    /\ UNCHANGED <<fs, conns, server, client>>

LetterToHour(letter) ==
    /\ call.op = "none"
    /\ call' = [op |-> "_letter_to_hour", args |-> <<letter>>,
                out |-> _letter_to_hour(letter)]
    /\ UNCHANGED <<fs, conns, server, client>>

NextLetters ==
    \/ \E hour \in HourInputs : HourToLetter(hour)
    \/ \E letter \in LetterInputs : LetterToHour(letter)
    \/ Return

SpecLetters == InitLetters /\ [][NextLetters]_vars

----------------------------------------------------------------------------
(* Archives and requests of the codec's specification *)

\* a POS file of two records at the first bucket, its last line ended or not,
\* or an empty one; an hour directory two hours later
TwoRecords == PosLine(WindowStart, TRUE) \o PosLine(WindowStart + LateOffset, FALSE)

StationContents ==
    { {},
      { [path |-> BucketPath(FLEE, WindowStart), node |-> FileNode(<<>>, TRUE)] },
      { [path |-> BucketPath(FLEE, WindowStart), node |-> FileNode(TwoRecords, TRUE)],
        HourDir(Y2024, <<"3", "6", "6">>, "w"), HourDir(Y2025, <<"0", "0", "1">>, "a") },
      { [path |-> BucketPath(FLEE, WindowStart),
         node |-> FileNode(SubSeq(TwoRecords, 1, Len(TwoRecords) - 1), TRUE)] } }

\* other entries of the archive root: a station named with a space inside, one
\* named with a space at its end, a plain file
OtherEntries ==
    { {},
      { [path |-> <<Str(<<"T", " ", "1">>)>>, node |-> DirNode] },
      { [path |-> <<Str(<<"T", " ", "1">>)>>, node |-> DirNode],
        [path |-> <<Str(<<"R", "E", "A", "D", "M", "E">>)>>, node |-> FileNode(<<>>, TRUE)] },
      { [path |-> <<Str(<<"T", " ", "1">>)>>, node |-> DirNode],
        [path |-> <<Str(<<"Z", " ">>)>>, node |-> DirNode] } }

CodecArchives == { MkFs(a \cup b) : a \in StationContents, b \in OtherEntries }

Commands ==
    { LIST_STATIONS, Str(<<"l", "i", "s", "t", "_", "s", "t", "a", "t", "i", "o", "n", "s">>),
      LIST_TIME,
      GET_DATA, Str(<<"g", "e", "t", "_", "d", "a", "t", "a">>),
      Str(<<"S", "T", "A", "T", "U", "S">>), <<>> }

\* a station (no timestamp where a timestamp is due) and two timestamps
ArgValues ==
    { FLEE, <<Atom("iso", WindowStart)>>, <<Atom("iso", WindowStart + LateOffset)>> }

\* a command and up to four arguments (one more than any command takes),
\* with or without a line end
Requests ==
    { Join(<<Ch(",")>>, <<c>> \o a) \o e :
        c \in Commands, a \in SeqsUpTo(ArgValues, 4), e \in { <<>>, <<NL>> } }

\* the orders in which os.listdir may give a set of names
RECURSIVE Orders(_)
Orders(names) ==
    IF names = {} THEN { <<>> }
    ELSE UNION { { <<n>> \o rest : rest \in Orders(names \ {n}) } : n \in names }

InitCodec ==
    /\ fs \in CodecArchives
    /\ call = Idle
    /\ conns = <<>>
    /\ server = Constructed
    /\ client = NoClient

\* os.listdir(self.root) is called by the LIST_STATIONS branch alone: the
\* listings a request may meet
ListingsFor(request) ==
    IF Upper(Split(Strip(request), Ch(","))[1]) = LIST_STATIONS
    THEN Orders(ListDir(fs, <<>>))
    ELSE { <<>> }

\* a call of _process_request
ProcessRequest ==
    /\ call.op = "none"
    /\ \E request \in Requests :
         \E listing \in ListingsFor(request) :
           call' = [op |-> "_process_request", args |-> <<request>>,
                    out |-> _process_request(fs, request, listing)]
    /\ UNCHANGED <<fs, conns, server, client>>

\* LZEROClient.list_available_stations against the server, the transport
\* delivering request and response whole: args holds the server's list and
\* the response on the wire
ClientListStations ==
    /\ call.op = "none"
    /\ \E listing \in Orders(ListDir(fs, <<>>)) :
         \E response \in { _process_request(fs, LIST_STATIONS, listing) } :
           call' = [op |-> "client.list_available_stations",
                    args |-> <<list_available_stations(fs, listing), response.val>>,
                    out |-> Ret(ClientDecodeList(response.val))]
    /\ UNCHANGED <<fs, conns, server, client>>

\* LZEROClient.list_available_time against the server
ClientListTime(station) ==
    /\ call.op = "none"
    /\ \E dates \in { list_available_time(fs, station) } :
         /\ dates.exc = "none"
         /\ \E response \in { _process_request(fs, LIST_TIME \o <<Ch(",")>>
                                                 \o station, <<>>) } :
              call' = [op |-> "client.list_available_time",
                       args |-> <<dates.val, response.val>>,
                       out |-> Ret(ClientDecodeList(response.val))]
    /\ UNCHANGED <<fs, conns, server, client>>

NextCodec ==
    \/ ProcessRequest
    \/ ClientListStations
    \/ \E station \in { FLEE, Str(<<"T", " ", "1">>) } : ClientListTime(station)
    \/ Return

SpecCodec == InitCodec /\ [][NextCodec]_vars

----------------------------------------------------------------------------
(* server.py: connection handlers.  conns[c] is the c-th accepted connection
   with the position of its handler thread in _handle_client *)

MaxConns == 2

\* one station with an hour file of two records that can be read, the same
\* file without read permission, and the station with an hour directory below
\* a year directory named old
ServeArchives ==
    { MkFs({ [path |-> BucketPath(FLEE, WindowStart),
              node |-> FileNode(TwoRecords, readable)] }) :
        readable \in BOOLEAN }
    \cup { MkFs({ HourDir(Y2025, <<"0", "0", "1">>, "a"),
                  HourDir(Str(<<"o", "l", "d">>), <<"0", "0", "1">>, "a") }) }

\* what a client may have sent when recv returns: each command for the
\* station, a command the server does not know, nothing at all
ServeRequests ==
    { LIST_STATIONS \o <<NL>>,
      LIST_TIME \o <<Ch(",")>> \o FLEE \o <<NL>>,
      GET_DATA \o <<Ch(",")>> \o FLEE \o <<Ch(","), Atom("iso", WindowStart), Ch(","),
                                         Atom("iso", WindowStart + LateOffset), NL>>,
      Str(<<"S", "T", "A", "T", "U", "S">>),
      <<>> }

InitServe ==
    /\ fs \in ServeArchives
    /\ call = Idle
    /\ conns = <<>>
    /\ server = Started
    /\ client = NoClient

\* _accept_loop: accept() gives a connection and a handler thread is started
\* for it; inbox is what the peer has written to the connection
Accept(request) ==
    /\ Len(conns) < MaxConns
    /\ conns' = Append(conns, [pc |-> "recv", inbox |-> request, data |-> <<>>,
                               response |-> <<>>, sent |-> <<>>, closes |-> 0,
                               error |-> "none", failed |-> "none"])
    /\ UNCHANGED <<fs, call, server, client>>

\* data = conn.recv(4096).decode('utf-8'): the request, or recv raises (the
\* peer reset the connection), or decode raises (bytes that are no UTF-8)
HandlerRecv(c) ==
    /\ conns[c].pc = "recv"
    /\ \/ conns' = [conns EXCEPT ![c].pc = "process", ![c].data = conns[c].inbox]
       \/ \E e \in { "ConnectionResetError", "UnicodeDecodeError" } :
            conns' = [conns EXCEPT ![c].pc = "except", ![c].error = e,
                                   ![c].failed = "recv"]
    /\ UNCHANGED <<fs, call, server, client>>

\* the handler that answers with the response of the handler started before
\* it when that one has a response, as from a cache kept on the server
HandlerProcessCached(c) ==
    /\ conns[c].pc = "process"
    /\ \E listing \in ListingsFor(conns[c].data) :
         \E out \in { _process_request(fs, conns[c].data, listing) } :
           conns' = IF c > 1 /\ conns[c - 1].response # <<>>
                    THEN [conns EXCEPT ![c].pc = "send",
                                       ![c].response = conns[c - 1].response]
                    ELSE IF out.exc = "none"
                    THEN [conns EXCEPT ![c].pc = "send", ![c].response = out.val]
                    ELSE [conns EXCEPT ![c].pc = "except", ![c].error = out.exc,
                                       ![c].failed = "process"]
    /\ UNCHANGED <<fs, call, server, client>>

\* response = self._process_request(data)
HandlerProcess(c) ==
    /\ conns[c].pc = "process"
    /\ \E listing \in ListingsFor(conns[c].data) :
         \E out \in { _process_request(fs, conns[c].data, listing) } :
           conns' = IF out.exc = "none"
                    THEN [conns EXCEPT ![c].pc = "send", ![c].response = out.val]
                    ELSE [conns EXCEPT ![c].pc = "except", ![c].error = out.exc,
                                       ![c].failed = "process"]
    /\ UNCHANGED <<fs, call, server, client>>

\* conn.sendall(response.encode('utf-8')): the response is written, or the
\* write raises (the peer is gone)
HandlerSend(c) ==
    /\ conns[c].pc = "send"
    /\ \/ conns' = [conns EXCEPT ![c].pc = "finally",
                                 ![c].sent = Append(@, conns[c].response)]
       \/ conns' = [conns EXCEPT ![c].pc = "except", ![c].error = "BrokenPipeError",
                                 ![c].failed = "send"]
    /\ UNCHANGED <<fs, call, server, client>>

\* the except clause ending the thread without reaching the finally clause
HandlerExceptEnds(c) ==
    /\ conns[c].pc = "except"
    /\ conns' = [conns EXCEPT ![c].pc = "done"]
    /\ UNCHANGED <<fs, call, server, client>>

\* except Exception as e: print(...)
HandlerExcept(c) ==
    /\ conns[c].pc = "except"
    /\ conns' = [conns EXCEPT ![c].pc = "finally"]
    /\ UNCHANGED <<fs, call, server, client>>

\* finally: conn.close(); the handler thread ends
HandlerClose(c) ==
    /\ conns[c].pc = "finally"
    /\ conns' = [conns EXCEPT ![c].pc = "done", ![c].closes = @ + 1]
    /\ UNCHANGED <<fs, call, server, client>>

NextServe ==
    \/ \E request \in ServeRequests : Accept(request)
    \/ \E c \in DOMAIN conns : HandlerRecv(c)
    \/ \E c \in DOMAIN conns : HandlerProcess(c)
    \/ \E c \in DOMAIN conns : HandlerSend(c)
    \/ \E c \in DOMAIN conns : HandlerExcept(c)
    \/ \E c \in DOMAIN conns : HandlerClose(c)

SpecServe == InitServe /\ [][NextServe]_vars

\* one step of the handler thread of connection c
HandlerStep(c) ==
    /\ c \in DOMAIN conns
    /\ \/ HandlerRecv(c)
       \/ HandlerProcess(c)
       \/ HandlerSend(c)
       \/ HandlerExcept(c)
       \/ HandlerClose(c)

\* the archive and the requests of the fair run: the station below a year
\* directory named old, asked for its stations (answered) and for its time
\* span (int('old') raises in list_available_time)
LiveArchives == { a \in ServeArchives : \A p \in DOMAIN a : a[p].kind = "dir" }

LiveRequests ==
    { LIST_STATIONS \o <<NL>>,
      LIST_TIME \o <<Ch(",")>> \o FLEE \o <<NL>> }

InitServeLive ==
    /\ fs \in LiveArchives
    /\ call = Idle
    /\ conns = <<>>
    /\ server = Started
    /\ client = NoClient

NextServeLive ==
    \/ \E request \in LiveRequests : Accept(request)
    \/ \E c \in DOMAIN conns : HandlerRecv(c)
    \/ \E c \in DOMAIN conns : HandlerProcess(c)
    \/ \E c \in DOMAIN conns : HandlerSend(c)
    \/ \E c \in DOMAIN conns : HandlerExcept(c)
    \/ \E c \in DOMAIN conns : HandlerClose(c)

\* the handlers under a fair scheduler: a started handler thread keeps
\* running; recv returns because the peer has written its request or closed
\* (inbox holds it from the accept on), and sendall returns or raises
SpecServeLive ==
    /\ InitServeLive
    /\ [][NextServeLive]_vars
    /\ \A c \in 1..MaxConns : WF_vars(HandlerStep(c))

\* concurrent handlers of the three commands on the archive whose hour file
\* can be read
HandleArchives ==
    { a \in ServeArchives : \E p \in DOMAIN a : a[p].kind = "file" /\ a[p].readable }

HandleRequests ==
    { r \in ServeRequests : Upper(Split(Strip(r), Ch(","))[1])
                               \in { LIST_STATIONS, LIST_TIME, GET_DATA } }

InitHandle ==
    /\ fs \in HandleArchives
    /\ call = Idle
    /\ conns = <<>>
    /\ server = Started
    /\ client = NoClient

NextHandle ==
    \/ \E request \in HandleRequests : Accept(request)
    \/ \E c \in DOMAIN conns : HandlerRecv(c)
    \/ \E c \in DOMAIN conns : HandlerProcess(c)
    \/ \E c \in DOMAIN conns : HandlerSend(c)
    \/ \E c \in DOMAIN conns : HandlerExcept(c)
    \/ \E c \in DOMAIN conns : HandlerClose(c)

SpecHandle == InitHandle /\ [][NextHandle]_vars

----------------------------------------------------------------------------
(* server.py: the listener thread of a started server and a call of stop().
   server.wakes tells whether the platform ends an accept() that blocks on a
   socket with OSError when another thread closes the socket; where it does
   not, the accept() goes on waiting for a connection *)

ListenArchives == LiveArchives

\* what a client that connects has written to its connection
ListenRequests == { LIST_STATIONS \o <<NL>> }

InitListen ==
    /\ fs \in ListenArchives
    /\ call = Idle
    /\ conns = <<>>
    /\ server \in { [Started EXCEPT !.wakes = w] : w \in BOOLEAN }
    /\ client = NoClient

\* while self.running:
LoopWhile ==
    /\ server.loop = "while"
    /\ server' = [server EXCEPT !.loop = IF server.running THEN "accept" ELSE "dead"]
    /\ UNCHANGED <<fs, call, conns, client>>

\* self.sock.accept() is called: AttributeError when self.sock is None (no
\* except clause catches it, the thread ends), OSError when the socket is
\* closed (except OSError: break), and the call blocks otherwise
LoopAccept ==
    /\ server.loop = "accept"
    /\ server' = IF server.sock = "None"
                 THEN [server EXCEPT !.loop = "dead", !.error = "AttributeError"]
                 ELSE IF ~server.open
                      THEN [server EXCEPT !.loop = "dead"]
                      ELSE [server EXCEPT !.loop = "blocked"]
    /\ UNCHANGED <<fs, call, conns, client>>

\* a client connects and the blocked accept() returns its connection
AcceptReturns(request) ==
    /\ server.loop = "blocked"
    /\ server.open \/ ~server.wakes
    /\ Len(conns) < MaxConns
    /\ server' = [server EXCEPT !.loop = "start", !.conn = request]
    /\ UNCHANGED <<fs, call, conns, client>>

\* the socket was closed under the blocked accept(), which raises OSError:
\* except OSError: break
AcceptRaises ==
    /\ server.loop = "blocked"
    /\ ~server.open /\ server.wakes
    /\ server' = [server EXCEPT !.loop = "dead"]
    /\ UNCHANGED <<fs, call, conns, client>>

\* the listener that starts a handler only when the handlers it started
\* before have ended
LoopStartAndJoin ==
    /\ server.loop = "start"
    /\ \A c \in DOMAIN conns : conns[c].pc = "done"
    /\ conns' = Append(conns, [pc |-> "recv", inbox |-> server.conn, data |-> <<>>,
                               response |-> <<>>, sent |-> <<>>, closes |-> 0,
                               error |-> "none", failed |-> "none"])
    /\ server' = [server EXCEPT !.loop = "while", !.conn = <<>>]
    /\ UNCHANGED <<fs, call, client>>

\* handler = threading.Thread(target=self._handle_client, args=(conn,));
\* handler.start(); the loop goes on
LoopStart ==
    /\ server.loop = "start"
    /\ conns' = Append(conns, [pc |-> "recv", inbox |-> server.conn, data |-> <<>>,
                               response |-> <<>>, sent |-> <<>>, closes |-> 0,
                               error |-> "none", failed |-> "none"])
    /\ server' = [server EXCEPT !.loop = "while", !.conn = <<>>]
    /\ UNCHANGED <<fs, call, client>>

\* stop() is called: if self.sock:
StopIf ==
    /\ server.stop = "none"
    /\ server' = [server EXCEPT !.stop = IF server.sock # "None" THEN "running"
                                         ELSE "done"]
    /\ UNCHANGED <<fs, call, conns, client>>

\* self.running = False
StopRunning ==
    /\ server.stop = "running"
    /\ server' = [server EXCEPT !.running = FALSE, !.stop = "close"]
    /\ UNCHANGED <<fs, call, conns, client>>

\* self.sock.close()
StopClose ==
    /\ server.stop = "close"
    /\ server' = [server EXCEPT !.open = FALSE, !.stop = "sock"]
    /\ UNCHANGED <<fs, call, conns, client>>

\* self.sock = None
StopSock ==
    /\ server.stop = "sock"
    /\ server' = [server EXCEPT !.sock = "None", !.stop = "join"]
    /\ UNCHANGED <<fs, call, conns, client>>

\* the stop() that also waits for the handlers to end
StopJoinHandlers ==
    /\ server.stop = "join"
    /\ server.loop \in { "none", "dead" }
    /\ \A c \in DOMAIN conns : conns[c].pc = "done"
    /\ server' = [server EXCEPT !.stop = "done"]
    /\ UNCHANGED <<fs, call, conns, client>>

\* if self.thread: self.thread.join(), which returns when the listener
\* thread has ended; stop() returns
StopJoin ==
    /\ server.stop = "join"
    /\ server.loop \in { "none", "dead" }
    /\ server' = [server EXCEPT !.stop = "done"]
    /\ UNCHANGED <<fs, call, conns, client>>

NextListen ==
    \/ LoopWhile
    \/ LoopAccept
    \/ \E request \in ListenRequests : AcceptReturns(request)
    \/ AcceptRaises
    \/ LoopStart
    \/ StopIf
    \/ StopRunning
    \/ StopClose
    \/ StopSock
    \/ StopJoin
    \/ \E c \in DOMAIN conns : HandlerRecv(c)
    \/ \E c \in DOMAIN conns : HandlerProcess(c)
    \/ \E c \in DOMAIN conns : HandlerSend(c)
    \/ \E c \in DOMAIN conns : HandlerExcept(c)
    \/ \E c \in DOMAIN conns : HandlerClose(c)

SpecListen == InitListen /\ [][NextListen]_vars

\* the steps the listener thread takes by itself, and those of the call of
\* stop()
LoopStep == LoopWhile \/ LoopAccept \/ AcceptRaises \/ LoopStart

StopStep == StopIf \/ StopRunning \/ StopClose \/ StopSock \/ StopJoin

\* the threads under a fair scheduler, stop() called at some time; whether
\* and when a client connects is up to the clients
SpecListenLive ==
    /\ SpecListen
    /\ WF_vars(LoopStep)
    /\ WF_vars(StopStep)

\* the handler threads under a fair scheduler, beside a listener and a call
\* of stop() that may take their steps at any time, on a platform whose
\* close() ends a blocked accept()
InitListenFair ==
    /\ fs \in ListenArchives
    /\ call = Idle
    /\ conns = <<>>
    /\ server = [Started EXCEPT !.wakes = TRUE]
    /\ client = NoClient

SpecListenFair ==
    /\ InitListenFair
    /\ [][NextListen]_vars
    /\ \A c \in 1..MaxConns : WF_vars(HandlerStep(c))

----------------------------------------------------------------------------
(* server.py: calls of start(), stop() and restart() on one LZEROServer, made
   one after the other by one thread, beside the listener thread and the
   handlers it starts.  call.op names the call in progress and call.args
   holds the server as the call found it *)

LifeCall(op) == [op |-> op, args |-> <<server>>, out |-> Ret(<<>>)]

InitLife ==
    /\ fs \in ListenArchives
    /\ call = Idle
    /\ conns = <<>>
    /\ server \in { [Constructed EXCEPT !.wakes = w] : w \in BOOLEAN }
    /\ client = NoClient

\* start() is called, on a server that is not running
CallStart ==
    /\ call = Idle
    /\ ~server.running
    /\ call' = LifeCall("start")
    /\ server' = [server EXCEPT !.start = "socket"]
    /\ UNCHANGED <<fs, conns, client>>

\* self.sock = socket.socket(...); self.sock.bind(('', self.port));
\* self.sock.listen(5)
StartSocket ==
    /\ server.start = "socket"
    /\ server' = [server EXCEPT !.sock = "socket", !.open = TRUE, !.start = "running"]
    /\ UNCHANGED <<fs, call, conns, client>>

\* self.running = True
StartRunning ==
    /\ server.start = "running"
    /\ server' = [server EXCEPT !.running = TRUE, !.start = "thread"]
    /\ UNCHANGED <<fs, call, conns, client>>

\* self.thread = threading.Thread(target=self._accept_loop);
\* self.thread.start()
StartThread ==
    /\ server.start = "thread"
    /\ server' = [server EXCEPT !.loop = "while", !.error = "none", !.start = "done"]
    /\ UNCHANGED <<fs, call, conns, client>>

\* start() returns
StartReturn ==
    /\ call.op = "start"
    /\ server.start = "done"
    /\ call' = Idle
    /\ server' = [server EXCEPT !.start = "none"]
    /\ UNCHANGED <<fs, conns, client>>

\* stop() is called
CallStop ==
    /\ call = Idle
    /\ call' = LifeCall("stop")
    /\ UNCHANGED <<fs, conns, server, client>>

\* if self.sock: in the call of stop() in progress
LifeStopIf ==
    /\ call.op \in { "stop", "restart" }
    /\ server.start = "none"
    /\ StopIf

\* stop() returns
StopReturn ==
    /\ call.op = "stop"
    /\ server.stop = "done"
    /\ call' = Idle
    /\ server' = [server EXCEPT !.stop = "none"]
    /\ UNCHANGED <<fs, conns, client>>

\* restart() is called: self.stop()
CallRestart ==
    /\ call = Idle
    /\ call' = LifeCall("restart")
    /\ UNCHANGED <<fs, conns, server, client>>

\* self.stop() has returned: self.start()
RestartStart ==
    /\ call.op = "restart"
    /\ server.stop = "done"
    /\ server' = [server EXCEPT !.stop = "none", !.start = "socket"]
    /\ UNCHANGED <<fs, call, conns, client>>

\* restart() returns
RestartReturn ==
    /\ call.op = "restart"
    /\ server.start = "done"
    /\ call' = Idle
    /\ server' = [server EXCEPT !.start = "none"]
    /\ UNCHANGED <<fs, conns, client>>

\* accept() on the open listening socket raises OSError (no descriptor is
\* left for the connection, the connection was aborted, ...): except
\* OSError: break
AcceptFault ==
    /\ server.loop = "blocked"
    /\ server.open
    /\ server' = [server EXCEPT !.loop = "dead"]
    /\ UNCHANGED <<fs, call, conns, client>>

NextLife ==
    \/ CallStart
    \/ StartSocket
    \/ StartRunning
    \/ StartThread
    \/ StartReturn
    \/ CallStop
    \/ LifeStopIf
    \/ StopRunning
    \/ StopClose
    \/ StopSock
    \/ StopJoin
    \/ StopReturn
    \/ CallRestart
    \/ RestartStart
    \/ RestartReturn
    \/ LoopWhile
    \/ LoopAccept
    \/ \E request \in ListenRequests : AcceptReturns(request)
    \/ AcceptRaises
    \/ AcceptFault
    \/ LoopStart
    \/ \E c \in DOMAIN conns : HandlerRecv(c)
    \/ \E c \in DOMAIN conns : HandlerProcess(c)
    \/ \E c \in DOMAIN conns : HandlerSend(c)
    \/ \E c \in DOMAIN conns : HandlerExcept(c)
    \/ \E c \in DOMAIN conns : HandlerClose(c)

SpecLife == InitLife /\ [][NextLife]_vars

(* client.py, server.py: one call of _send_request and the handler of its
   connection, conns[1].  A connection delivers what was written to it in
   order, in pieces of any size *)

ExchangeArchives == HandleArchives

\* the requests of the client's get_data and list_available_stations
ExchangeRequests ==
    { r \in ServeRequests : Upper(Split(Strip(r), Ch(","))[1])
                              \in { LIST_STATIONS, GET_DATA } }

InitExchange ==
    /\ fs \in ExchangeArchives
    /\ call = Idle
    /\ conns = <<>>
    /\ server = Started
    /\ client = NoClient

\* s.settimeout(10); s.connect(...): the listener accepts the connection and
\* starts its handler, which has received nothing yet
ClientConnect(request) ==
    /\ client.pc = "none"
    /\ conns = <<>>
    /\ client' = [client EXCEPT !.pc = "sendall", !.request = request]
    /\ conns' = <<[pc |-> "recv", inbox |-> <<>>, data |-> <<>>,
                   response |-> <<>>, sent |-> <<>>, closes |-> 0,
                   error |-> "none", failed |-> "none"]>>
    /\ UNCHANGED <<fs, call, server>>

\* s.sendall(request.encode('utf-8'))
ClientSendall ==
    /\ client.pc = "sendall"
    /\ client' = [client EXCEPT !.pc = "recv", !.wire = client.request]
    /\ UNCHANGED <<fs, call, conns, server>>

\* the connection delivers the next n symbols to the handler's socket
Deliver(n) ==
    /\ n \in 1..Len(client.wire)
    /\ conns[1].closes = 0
    /\ conns' = [conns EXCEPT ![1].inbox = @ \o SubSeq(client.wire, 1, n)]
    /\ client' = [client EXCEPT !.wire = SubSeq(@, n + 1, Len(@))]
    /\ UNCHANGED <<fs, call, server>>

\* the client's call has ended and its socket is closed
ClientEnded == client.pc \in { "returned", "raised" }

\* conn.recv(4096) returns once something has arrived, with all that has
\* arrived, or with nothing when the client has closed and nothing is left
\* to deliver
ExchangeRecv ==
    /\ Len(conns) = 1
    /\ conns[1].inbox # <<>> \/ (ClientEnded /\ client.wire = <<>>)
    /\ HandlerRecv(1)

\* what the handler has written and the client's recv has not yet returned
Unread ==
    IF conns = <<>> THEN <<>>
    ELSE Only({ SubSeq(written, client.read + 1, Len(written)) :
                written \in { Concat(conns[1].sent) } })

\* the handler closed its socket while part of the request had not been
\* returned by its recv: the client's end is reset
WasReset ==
    /\ conns[1].closes = 1
    /\ client.wire # <<>> \/ conns[1].inbox # conns[1].data

\* the loop that ends with the first chunk
ClientRecvOnce(n) ==
    /\ client.pc = "recv"
    /\ n \in { Len(Unread), Len(Unread) \div 2 } \ { 0 }
    /\ client' = [client EXCEPT !.pc = "returned",
                                !.out = Ret(SubSeq(Unread, 1, n)),
                                !.chunks = Append(@, SubSeq(Unread, 1, n)),
                                !.read = @ + n]
    /\ UNCHANGED <<fs, call, conns, server>>

\* chunk = s.recv(4096) returns n symbols the handler wrote:
\* chunks.append(chunk)
ClientRecv(n) ==
    /\ client.pc = "recv"
    /\ n \in { Len(Unread), Len(Unread) \div 2 } \ { 0 }
    /\ client' = [client EXCEPT !.chunks = Append(@, SubSeq(Unread, 1, n)),
                                !.read = @ + n]
    /\ UNCHANGED <<fs, call, conns, server>>

\* s.recv(4096) returns b'' after the handler's close: break;
\* return b''.join(chunks).decode('utf-8')
ClientReturn ==
    /\ client.pc = "recv"
    /\ Unread = <<>>
    /\ conns[1].closes = 1
    /\ client' = [client EXCEPT !.pc = "returned", !.out = Ret(Concat(client.chunks))]
    /\ UNCHANGED <<fs, call, conns, server>>

\* s.recv(4096) raises: socket.timeout after 10 s without a byte and without
\* the close, or ConnectionResetError; except socket.error: raise
\* ConnectionError(...)
ClientRaise ==
    /\ client.pc = "recv"
    /\ \/ Unread = <<>> /\ conns[1].closes = 0
       \/ WasReset
    /\ client' = [client EXCEPT !.pc = "raised", !.out = Raise("ConnectionError")]
    /\ UNCHANGED <<fs, call, conns, server>>

NextExchange ==
    \/ \E request \in ExchangeRequests : ClientConnect(request)
    \/ ClientSendall
    \/ \E n \in 1..Len(client.wire) : Deliver(n)
    \/ ExchangeRecv
    \/ \E c \in DOMAIN conns : HandlerProcess(c)
    \/ \E c \in DOMAIN conns : HandlerSend(c)
    \/ \E c \in DOMAIN conns : HandlerExcept(c)
    \/ \E c \in DOMAIN conns : HandlerClose(c)
    \/ \E n \in 1..Len(Unread) : ClientRecv(n)
    \/ ClientReturn
    \/ ClientRaise

SpecExchange == InitExchange /\ [][NextExchange]_vars

\* a step of the client's call after the connect, and of the handler
ClientStep ==
    \/ ClientSendall
    \/ \E n \in 1..Len(Unread) : ClientRecv(n)
    \/ ClientReturn
    \/ ClientRaise

ExchangeHandlerStep ==
    \/ ExchangeRecv
    \/ \E c \in DOMAIN conns : HandlerProcess(c)
    \/ \E c \in DOMAIN conns : HandlerSend(c)
    \/ \E c \in DOMAIN conns : HandlerExcept(c)
    \/ \E c \in DOMAIN conns : HandlerClose(c)

\* both threads under a fair scheduler; the client's recv returns or raises
\* within the 10 s of its timeout, and the connection delivers what was
\* written to it while the handler's socket is open
SpecExchangeLive ==
    /\ SpecExchange
    /\ WF_vars(ClientStep)
    /\ WF_vars(ExchangeHandlerStep)
    /\ WF_vars(\E n \in 1..Len(client.wire) : Deliver(n))

----------------------------------------------------------------------------
(* Responses of the parser's specification *)

MaxRespLines == 2

Num(i) == <<Atom("num", i)>>

\* the 15 tokens of a POS line stamped t: date, time, lat, lon, h, fix, nsat,
\* dx, dy, dz, vx, vy, vz, pdop, temp
PosTokens(t) ==
    << <<Atom("date/", DateOf(t))>>, <<Atom("time", TimeOf(t))>>,
       Num(1), Num(2), Num(3), Str(<<"1">>), Str(<<"8">>),
       Num(4), Num(5), Num(6), Num(7), Num(8), Num(9), Num(10), Num(11) >>

\* lines a response may hold: two well-formed lines, a line cut after 10
\* tokens, a line whose fix is written with a fraction, a line of 16 tokens,
\* a line of one word, an error line, a line of blanks
ResponseLines ==
    { Join(<<SP>>, PosTokens(WindowStart)),
      <<SP>> \o Join(<<SP, SP>>, PosTokens(WindowStart + LateOffset)),
      Join(<<SP>>, SubSeq(PosTokens(WindowStart), 1, 10)),
      Join(<<SP>>, [PosTokens(WindowStart) EXCEPT ![6] = Num(1)]),
      Join(<<SP>>, Append(PosTokens(WindowStart), Num(12))),
      Str(<<"x">>),
      RStrip(ErrDatetime),
      <<SP>> }

\* up to MaxRespLines lines, the last with or without its line end
Responses ==
    { Join(<<NL>>, ls) \o e : ls \in SeqsUpTo(ResponseLines, MaxRespLines),
                              e \in { <<>>, <<NL>> } }

InitParse ==
    /\ fs = <<>>
    /\ call = Idle
    /\ conns = <<>>
    /\ server = Constructed
    /\ client = NoClient

\* a call of LZEROClient._parse_response
ParseResponse(response) ==
    /\ call.op = "none"
    /\ call' = [op |-> "_parse_response", args |-> <<response>>,
                out |-> Ret(_parse_response(response))]
    /\ UNCHANGED <<fs, conns, server, client>>

NextParse ==
    \/ \E response \in Responses : ParseResponse(response)
    \/ Return

SpecParse == InitParse /\ [][NextParse]_vars

----------------------------------------------------------------------------
(* Series of the chunker's specification *)

MaxSamples == 4

\* steps between consecutive samples, in seconds: the regular second, a
\* repeated stamp, a step back, a double step, a gap
StepChoices == { 0 - 1, 0, 1, 2, 10 }

\* the datetimes of a series that starts at WindowStart and takes the steps
RECURSIVE TimesAfter(_, _)
TimesAfter(t, steps) ==
    IF steps = <<>> THEN <<t>>
    ELSE <<t>> \o TimesAfter(t + Head(steps), Tail(steps))

SampleTimes ==
    { <<>> } \cup { TimesAfter(WindowStart, steps) :
                      steps \in SeqsUpTo(StepChoices, MaxSamples - 1) }

\* a datetime as _parse_response writes it
StampText(t) == <<Atom("date-", DateOf(t)), Ch("T"), Atom("time", TimeOf(t))>>

\* the parsed data set of n samples at the given datetimes, its coordinate
\* lists holding the first m samples
DataSet(times, m) ==
    [datetime |-> [i \in 1..Len(times) |-> StampText(times[i])],
     lon |-> [i \in 1..m |-> 10 + i],
     lat |-> [i \in 1..m |-> 40 + i],
     h |-> [i \in 1..m |-> 100 + i]]

\* data sets with all lists of one length, data sets whose coordinate lists
\* are one entry short, and a data set without heights
DataSets ==
    { DataSet(times, Len(times)) : times \in SampleTimes }
    \cup { DataSet(times, Len(times) - 1) : times \in SampleTimes \ { <<>> } }
    \cup { [datetime |-> <<>>, lon |-> <<>>, lat |-> <<>>] }

InitStreams ==
    /\ fs = <<>>
    /\ call = Idle
    /\ conns = <<>>
    /\ server = Constructed
    /\ client = NoClient

\* a call of convert_to_streams
ConvertToStreams(data) ==
    /\ call.op = "none"
    /\ call' = [op |-> "convert_to_streams", args |-> <<data>>,
                out |-> convert_to_streams(data)]
    /\ UNCHANGED <<fs, conns, server, client>>

NextStreams ==
    \/ \E data \in DataSets : ConvertToStreams(data)
    \/ Return

SpecStreams == InitStreams /\ [][NextStreams]_vars

----------------------------------------------------------------------------
(* Properties of the query engine, under SpecQuery *)

IsQuery == call.op = "_get_pos_data"

QStation == call.args[1]

QStart == call.args[2]

QEnd == call.args[3]

HourFloor(t) == t - (t % SecondsPerHour)

\* the first two whitespace-separated fields of a line are a date and a time
HasStamp(line) ==
    LET fields == SplitWs(line)
    IN  /\ Len(fields) >= 2
        /\ Len(fields[1]) = 1 /\ fields[1][1].k \in {"date/", "date-"}
        /\ Len(fields[2]) = 1 /\ fields[2][1].k = "time"

StampOf(line) ==
    LET fields == SplitWs(line)
    IN  fields[1][1].v * SecondsPerDay + fields[2][1].v

Within(line, lo, hi) == HasStamp(line) /\ lo <= StampOf(line) /\ StampOf(line) <= hi

\* the lines stored in the file at path
StoredLines(path) == ReadLinesFrom(fs[path].text, <<>>)

\* the hour buckets from the start's hour to the end's hour
HourBuckets(lo, hi) ==
    [i \in 1..((HourFloor(hi) - HourFloor(lo)) \div SecondsPerHour + 1) |->
        HourFloor(lo) + (i - 1) * SecondsPerHour]

\* C1: for start <= end the query visits the hour buckets from the hour of
\* start through the hour of end, one hour at a time, and returns every line
\* stamped within [start, end] that an existing file of these buckets stores.
C1_VisitsEveryHourBucket ==
    (IsQuery /\ QStart <= QEnd) =>
        LET buckets == HourBuckets(QStart, QEnd)
        IN  /\ call.out.visited =
                 [i \in 1..Len(buckets) |-> BucketPath(QStation, buckets[i])]
            /\ \A i \in 1..Len(buckets) :
                 LET path == BucketPath(QStation, buckets[i])
                 IN  IsFile(fs, path) =>
                       \A n \in 1..Len(StoredLines(path)) :
                         Within(StoredLines(path)[n], QStart, QEnd) =>
                           \E m \in 1..Len(call.out.val) :
                             call.out.val[m] = StoredLines(path)[n]

\* C2: every returned line has a leading date and time stamped within
\* [start, end], both ends included; lines without one are dropped and the
\* query still returns; with start = end every returned line is stamped start.
C2_ReturnedLinesWithinBounds ==
    IsQuery =>
        /\ call.out.exc = "none"
        /\ \A m \in 1..Len(call.out.val) :
             /\ Within(call.out.val[m], QStart, QEnd)
             /\ QStart = QEnd => StampOf(call.out.val[m]) = QStart

\* a query at one instant over a file that holds a line stamped at it, a line
\* stamped otherwise or not at all: only the first is returned
C2_Witness ==
    /\ IsQuery
    /\ QStart = QEnd
    /\ Len(call.out.val) = 1
    /\ \E i \in 1..Len(call.out.visited) :
         /\ IsFile(fs, call.out.visited[i])
         /\ \E n \in 1..Len(StoredLines(call.out.visited[i])) :
              ~HasStamp(StoredLines(call.out.visited[i])[n])

\* the lines of the visited files that are stamped within [lo, hi], in the
\* order visited and stored; a missing file gives none
RECURSIVE LinesOfVisited(_, _, _)
LinesOfVisited(paths, lo, hi) ==
    IF paths = <<>> THEN <<>>
    ELSE (IF IsFile(fs, Head(paths))
          THEN SelectSeq(StoredLines(Head(paths)), LAMBDA l : Within(l, lo, hi))
          ELSE <<>>)
         \o LinesOfVisited(Tail(paths), lo, hi)

\* C3: a visited bucket whose file does not exist is skipped without an
\* error and the buckets after it are still visited: the query returns, one
\* bucket is visited per hour step from start to end, and the result is the
\* lines within [start, end] of the visited buckets whose files exist.
C3_MissingFileSkipped ==
    IsQuery =>
        /\ call.out.exc = "none"
        /\ QStart <= QEnd =>
             Len(call.out.visited) = (QEnd - QStart) \div SecondsPerHour + 1
        /\ call.out.val = LinesOfVisited(call.out.visited, QStart, QEnd)

\* three buckets are visited, the first has no file, a later one has a file
\* and its line is returned
C3_Witness ==
    /\ IsQuery
    /\ Len(call.out.visited) = 3
    /\ ~IsFile(fs, call.out.visited[1])
    /\ \E i \in 2..3 :
         /\ IsFile(fs, call.out.visited[i])
         /\ \E n \in 1..Len(StoredLines(call.out.visited[i])) :
              /\ Within(StoredLines(call.out.visited[i])[n], QStart, QEnd)
              /\ call.out.val = <<StoredLines(call.out.visited[i])[n]>>

----------------------------------------------------------------------------
\* C19: when start <= end and both fall in the same hour, the query visits
\* exactly one bucket, the one of that hour (hour 10 is letter k), and what
\* it returns are lines of that bucket's file.
C19_SameHourOneBucket ==
    /\ _hour_to_letter(10).val = Str(<<"k">>)
    /\ (IsQuery /\ QStart <= QEnd /\ HourFloor(QStart) = HourFloor(QEnd)) =>
         /\ call.out.exc = "none"
         /\ call.out.visited = <<BucketPath(QStation, HourFloor(QStart))>>
         /\ call.out.visited[1][4] = _hour_to_letter(HourOf(QStart)).val
         /\ IF IsFile(fs, call.out.visited[1])
            THEN \A m \in 1..Len(call.out.val) :
                   \E n \in 1..Len(StoredLines(call.out.visited[1])) :
                     call.out.val[m] = StoredLines(call.out.visited[1])[n]
            ELSE call.out.val = <<>>

\* a query from an hour's start to its 45th minute, the hour's file holding
\* one line, which is returned, and the next hour's file holding a line too
C19_Witness ==
    /\ IsQuery
    /\ QStart < QEnd
    /\ HourFloor(QStart) = HourFloor(QEnd)
    /\ IsFile(fs, BucketPath(QStation, QStart))
    /\ Len(StoredLines(BucketPath(QStation, QStart))) = 1
    /\ call.out.val = StoredLines(BucketPath(QStation, QStart))
    /\ IsFile(fs, BucketPath(QStation, QStart + SecondsPerHour))
    /\ StoredLines(BucketPath(QStation, QStart + SecondsPerHour)) # <<>>

\* a is b with some of its elements left out
RECURSIVE IsSubSeq(_, _)
IsSubSeq(a, b) ==
    IF a = <<>> THEN TRUE
    ELSE IF b = <<>> THEN FALSE
    ELSE IF Head(a) = Head(b) THEN IsSubSeq(Tail(a), Tail(b))
    ELSE IsSubSeq(a, Tail(b))

\* the lines stored in the files at the paths, path after path
RECURSIVE AllStored(_)
AllStored(paths) ==
    IF paths = <<>> THEN <<>>
    ELSE (IF IsFile(fs, Head(paths)) THEN StoredLines(Head(paths)) ELSE <<>>)
         \o AllStored(Tail(paths))

\* C20: the result is ordered by ascending hour bucket and within a bucket
\* by the order of the lines in its file: the buckets are visited hour after
\* hour, and the result is what remains of the visited files' lines, file
\* after file and line after line, when some lines are left out; no line is
\* moved and none is repeated.
C20_BucketThenFileOrder ==
    (IsQuery /\ call.out.exc = "none") =>
        /\ \A i \in 1..Len(call.out.visited) :
             call.out.visited[i] =
               BucketPath(QStation, QStart + (i - 1) * SecondsPerHour)
        /\ IsSubSeq(call.out.val, AllStored(call.out.visited))

\* a file whose first line is stamped later than its second: both are
\* returned as stored
C20_Witness ==
    /\ IsQuery
    /\ Len(call.out.val) = 2
    /\ StampOf(call.out.val[1]) > StampOf(call.out.val[2])
    /\ \E i \in 1..Len(call.out.visited) :
         /\ IsFile(fs, call.out.visited[i])
         /\ call.out.val = StoredLines(call.out.visited[i])

----------------------------------------------------------------------------
(* Properties of the availability scanner, under SpecScan *)

IsScan == call.op = "list_available_time"

IsNumber(name) == name # <<>> /\ \A i \in 1..Len(name) : IsDigit(name[i])

\* the hour letters a..x
IsHourLetter(name) == Len(name) = 1 /\ IsSubstring(name, letters)

\* the directories station/year/doy/letter of the archive layout
BucketDirsOf(station) ==
    { p \in DOMAIN fs :
        /\ Len(p) = 4 /\ p[1] = station /\ fs[p].kind = "dir"
        /\ IsNumber(p[2]) /\ IsNumber(p[3]) /\ IsHourLetter(p[4]) }

\* the start of the hour bucket a directory stands for
BucketStartOf(p) ==
    DayNumber(IntOf(p[2]).val, IntOf(p[3]).val) * SecondsPerDay
    + _letter_to_hour(p[4]).val * SecondsPerHour

ExistingBuckets(station) == { BucketStartOf(p) : p \in BucketDirsOf(station) }

\* the first hours of the maximal runs of hourly buckets, and a run's last hour
RunStarts(B) == { t \in B : (t - SecondsPerHour) \notin B }

RECURSIVE RunEnd(_, _)
RunEnd(B, t) == IF (t + SecondsPerHour) \in B THEN RunEnd(B, t + SecondsPerHour) ELSE t

RECURSIVE Ascending(_)
Ascending(S) ==
    IF S = {} THEN <<>>
    ELSE LET least == CHOOSE t \in S : \A u \in S : t <= u
         IN  <<least>> \o Ascending(S \ {least})

\* one interval per maximal run, in ascending order
RunIntervals(B) ==
    LET starts == Ascending(RunStarts(B))
    IN  [i \in 1..Len(starts) |-> _format_interval(starts[i], RunEnd(B, starts[i]))]

\* C4: for any directory tree the scan returns exactly one interval per
\* maximal run of existing hourly buckets, ascending, from the start of the
\* run's first bucket to the start of its last.
C4_OneIntervalPerMaximalRun ==
    IsScan => /\ call.out.exc = "none"
              /\ call.out.val = RunIntervals(ExistingBuckets(call.args[1]))

\* an entry below the station that is not a directory of the archive layout
OddEntriesOf(station) ==
    { p \in DOMAIN fs : Len(p) \in 2..4 /\ p[1] = station }
    \ UNION { {p} \cup Prefixes(p) : p \in BucketDirsOf(station) }

\* C5: entries that are no valid archive directory are skipped: the scan
\* never raises because of them and every valid hour bucket still lies in
\* a returned interval.
C5_OddEntriesSkipped ==
    (IsScan /\ OddEntriesOf(call.args[1]) # {}) =>
        /\ call.out.exc = "none"
        /\ \A t \in ExistingBuckets(call.args[1]) :
             \E i \in 1..Len(call.out.val) :
               /\ call.out.val[i][6].v <= t
               /\ t <= call.out.val[i][11].v

----------------------------------------------------------------------------
(* Properties of the request codec, under SpecCodec *)

IsRequest == call.op = "_process_request"

\* the comma-separated fields of the request line
RequestFields == Split(Strip(call.args[1]), Ch(","))

RequestCommand == Upper(RequestFields[1])

RequestArity == Len(RequestFields) - 1

IsTimestamp(s) == FromIsoFormat(s).exc = "none"

\* a request the protocol calls faulty: unknown command, wrong number of
\* arguments, or a GET_DATA start or end that is no timestamp
IsFaulty ==
    \/ RequestCommand \notin { LIST_STATIONS, LIST_TIME, GET_DATA }
    \/ RequestCommand = LIST_STATIONS /\ RequestArity # 0
    \/ RequestCommand = LIST_TIME /\ RequestArity # 1
    \/ RequestCommand = GET_DATA /\ RequestArity # 3
    \/ /\ RequestCommand = GET_DATA /\ RequestArity = 3
       /\ ~(IsTimestamp(RequestFields[3]) /\ IsTimestamp(RequestFields[4]))

ErrorPrefix == Str(<<"E", "R", "R", "O", "R", ":">>)

BeginsWithError(response) ==
    Len(response) >= Len(ErrorPrefix)
    /\ SubSeq(response, 1, Len(ErrorPrefix)) = ErrorPrefix

\* C6: every request with an unknown command, a number of arguments other
\* than the command's arity (0, 1, 3) or an unparsable GET_DATA timestamp is
\* answered by a response that begins with ERROR:
C6_FaultyRequestGetsError ==
    (IsRequest /\ IsFaulty) =>
        call.out.exc = "none" /\ BeginsWithError(call.out.val)

\* a GET_DATA request that is not faulty, and what the query engine gives it
IsGetData == IsRequest /\ RequestCommand = GET_DATA /\ ~IsFaulty

EngineResult ==
    _get_pos_data(fs, RequestFields[2], FromIsoFormat(RequestFields[3]).val,
                  FromIsoFormat(RequestFields[4]).val)

\* a record: the line without its line end
RecordOf(line) ==
    IF line # <<>> /\ line[Len(line)] = NL THEN SubSeq(line, 1, Len(line) - 1)
    ELSE line

\* the records joined by single newlines, and one trailing newline
OneLineEach(lines) ==
    Concat([i \in 1..Len(lines) |-> RecordOf(lines[i]) \o <<NL>>])
    \o (IF lines = <<>> THEN <<NL>> ELSE <<>>)

\* C8: the response to GET_DATA holds the n retained records one per line,
\* joined by single newlines with one trailing newline, no empty line between
\* them; for n = 0 it is a single newline.
C8_OneLinePerRecord ==
    (IsGetData /\ EngineResult.exc = "none") =>
        call.out = Ret(OneLineEach(EngineResult.val))

IsClientList ==
    call.op \in { "client.list_available_stations", "client.list_available_time" }

\* the entries the round trip is claimed for: not empty, no newline, no
\* whitespace at either end
PlainEntry(e) ==
    /\ e # <<>>
    /\ \A i \in 1..Len(e) : e[i] # NL
    /\ ~IsSpace(e[1]) /\ ~IsSpace(e[Len(e)])

PlainList(L) == \A i \in 1..Len(L) : PlainEntry(L[i])

\* C9: a list of stations or intervals the server serialises comes back from
\* the client's list call as the same list in the same order; the empty list
\* travels as a single newline and comes back as the empty list.
C9_ListRoundTrip ==
    (IsClientList /\ PlainList(call.args[1])) =>
        /\ call.out = Ret(call.args[1])
        /\ (call.args[1] = <<>> => call.args[2] = <<NL>>)

C9_Witness ==
    /\ call.op = "client.list_available_stations"
    /\ Len(call.args[1]) >= 2
    /\ PlainList(call.args[1])
    /\ call.out = Ret(call.args[1])

----------------------------------------------------------------------------
(* Properties of the hour letters, under SpecLetters *)

\* C10: the hours 0..23 and the letters a..x map onto each other one to one:
\* each hour comes back from its letter and each letter from its hour, with
\* a for 0 and x for 23.
C10_HourLetterBijection ==
    /\ (call.op = "_hour_to_letter" /\ call.args[1] \in 0..23) =>
           /\ call.out.exc = "none"
           /\ IsHourLetter(call.out.val)
           /\ _letter_to_hour(call.out.val) = Ret(call.args[1])
           /\ (call.args[1] = 0 => call.out.val = Str(<<"a">>))
           /\ (call.args[1] = 23 => call.out.val = Str(<<"x">>))
    /\ (call.op = "_letter_to_hour" /\ IsHourLetter(call.args[1])) =>
           /\ call.out.exc = "none"
           /\ call.out.val \in 0..23
           /\ _hour_to_letter(call.out.val) = Ret(call.args[1])
           /\ (call.args[1] = Str(<<"a">>) => call.out.val = 0)
           /\ (call.args[1] = Str(<<"x">>) => call.out.val = 23)

C10_Witness ==
    /\ call.op = "_letter_to_hour"
    /\ call.args[1] = Str(<<"x">>)
    /\ call.out = Ret(23)

----------------------------------------------------------------------------
(* Properties of the connection handlers, under SpecServe *)

EndsInNewline(payload) == payload # <<>> /\ payload[Len(payload)] = NL

\* C7: a handler that received its request has, when it closes the
\* connection, written a response to it, a payload ending in a newline or a
\* line beginning ERROR:, whatever the archive holds; it does not close
\* having sent nothing because processing the request raised.
C7_ResponseBeforeClose ==
    \A c \in DOMAIN conns :
        (conns[c].pc = "done" /\ conns[c].failed \notin { "recv", "send" }) =>
            /\ Len(conns[c].sent) = 1
            /\ EndsInNewline(conns[c].sent[1]) \/ BeginsWithError(conns[c].sent[1])

\* C11: every hour outside 0..23 makes _hour_to_letter fail, and every string
\* that is not one single letter of a..x (the empty string, another character,
\* a longer string) makes _letter_to_hour fail; no invalid input is answered
\* by a value.
C11_InvalidInputsFail ==
    /\ (call.op = "_hour_to_letter" /\ call.args[1] \notin 0..23) =>
           call.out.exc # "none"
    /\ (call.op = "_letter_to_hour" /\ ~IsHourLetter(call.args[1])) =>
           call.out.exc # "none"

----------------------------------------------------------------------------
(* Properties of the response parser, under SpecParse *)

IsParse == call.op = "_parse_response"

\* the lines of the response text
ResponseLinesOf(response) == Split(Strip(response), NL)

\* a line of the 15-token POS shape whose numeric fields are numbers
IsPosShaped(line) ==
    /\ ~StartsWithError(Strip(line))
    /\ Len(SplitWs(line)) = 15
    /\ \A k \in 3..15 :
         IF FieldNames[k - 1] \in IntFields THEN IntOf(SplitWs(line)[k]).exc = "none"
         ELSE FloatOf(SplitWs(line)[k]).exc = "none"

\* the date and time of a POS line as the parser keeps them
StampTextOf(line) ==
    ReplaceSlash(SplitWs(line)[1]) \o Str(<<"T">>) \o SplitWs(line)[2]

RECURSIVE SelectPosShaped(_)
SelectPosShaped(lines) ==
    IF lines = <<>> THEN <<>>
    ELSE (IF IsPosShaped(Head(lines)) THEN <<Head(lines)>> ELSE <<>>)
         \o SelectPosShaped(Tail(lines))

\* C12: the 14 field sequences have one common length: every line of the
\* 15-token POS shape with numeric fields gives one entry to each field, in
\* the order of the lines, and every other line gives no entry to any field.
C12_FieldsSameLength ==
    IsParse =>
        \A f \in Fields :
            /\ Len(call.out.val[f]) = Len(SelectPosShaped(ResponseLinesOf(call.args[1])))
            /\ f = "datetime" =>
                 call.out.val[f] =
                   [i \in 1..Len(SelectPosShaped(ResponseLinesOf(call.args[1]))) |->
                      StampTextOf(SelectPosShaped(ResponseLinesOf(call.args[1]))[i])]

----------------------------------------------------------------------------
(* Properties of the displacement chunker, under SpecStreams *)

IsStreams == call.op = "convert_to_streams"

\* the datetimes of the data set, in seconds
SeriesTimes ==
    [i \in 1..Len(call.args[1].datetime) |->
        FromIsoFormat(call.args[1].datetime[i]).val]

\* a series of n samples: a data set whose lists all hold n entries
IsSeries ==
    /\ StreamKeys \subseteq DOMAIN call.args[1]
    /\ Len(call.args[1].lon) = Len(SeriesTimes)
    /\ Len(call.args[1].lat) = Len(SeriesTimes)
    /\ Len(call.args[1].h) = Len(SeriesTimes)

Chunks == call.out.val

Ranges == call.out.ranges

Last(s) == s[Len(s)]

\* C13: for a series of n >= 2 samples the chunks partition the indices
\* 0..n-1: each chunk is a non-empty run of consecutive ascending indices,
\* the first starts at 0, each next starts right after the one before, the
\* last ends at n-1, and the chunks' x, y, z in order are the projected
\* x, y and the heights of the input.
C13_ChunksPartitionSeries ==
    (IsStreams /\ IsSeries /\ Len(SeriesTimes) >= 2) =>
        /\ call.out.exc = "none"
        /\ Len(Ranges) = Len(Chunks) /\ Len(Chunks) >= 1
        /\ \A c \in 1..Len(Ranges) :
             /\ Len(Ranges[c]) >= 1
             /\ \A k \in 1..(Len(Ranges[c]) - 1) : Ranges[c][k + 1] = Ranges[c][k] + 1
             /\ Len(Chunks[c].x_data) = Len(Ranges[c])
             /\ Len(Chunks[c].y_data) = Len(Ranges[c])
             /\ Len(Chunks[c].z_data) = Len(Ranges[c])
        /\ Ranges[1][1] = 0
        /\ \A c \in 1..(Len(Ranges) - 1) : Ranges[c + 1][1] = Last(Ranges[c]) + 1
        /\ Last(Last(Ranges)) = Len(SeriesTimes) - 1
        /\ Concat([c \in 1..Len(Chunks) |-> Chunks[c].x_data]) =
             [i \in 1..Len(SeriesTimes) |->
                _lonlat_to_utm(Zip(call.args[1].lon, call.args[1].lat))[i][1]]
        /\ Concat([c \in 1..Len(Chunks) |-> Chunks[c].y_data]) =
             [i \in 1..Len(SeriesTimes) |->
                _lonlat_to_utm(Zip(call.args[1].lon, call.args[1].lat))[i][2]]
        /\ Concat([c \in 1..Len(Chunks) |-> Chunks[c].z_data]) = call.args[1].h

C13_Witness ==
    /\ IsStreams /\ IsSeries /\ Len(SeriesTimes) = 4
    /\ call.out.exc = "none"
    /\ Len(Chunks) = 3
    /\ Len(Chunks[2].z_data) = 2

\* the indices i >= 1 whose delta to the sample before deviates from the
\* nominal interval m by more than half of m
GapIndices(times, m) ==
    { i \in 1..(Len(times) - 1) : 2 * Abs((times[i + 1] - times[i]) - m) > m }

\* the nominal interval the chunks record
Nominal == Chunks[1].delta

\* the chunking follows the 50 % rule on the nominal interval
FollowsGapRule ==
    /\ call.out.exc = "none"
    /\ { Ranges[c][1] : c \in 1..Len(Ranges) } \ {0} = GapIndices(SeriesTimes, Nominal)
    /\ Len(Chunks) = 1 + Cardinality(GapIndices(SeriesTimes, Nominal))
    /\ \A c \in 1..Len(Chunks) :
         /\ Chunks[c].delta = Nominal
         /\ FromIsoFormat(Chunks[c].starttime) = Ret(SeriesTimes[Ranges[c][1] + 1])

\* a series at 1 s spacing with a single 10 s gap
IsOneGapSeries ==
    /\ \A i \in 1..(Len(SeriesTimes) - 1) : SeriesTimes[i + 1] - SeriesTimes[i] \in {1, 10}
    /\ Cardinality({ i \in 1..(Len(SeriesTimes) - 1) :
                       SeriesTimes[i + 1] - SeriesTimes[i] = 10 }) = 1
    /\ \E i \in 1..(Len(SeriesTimes) - 1) : SeriesTimes[i + 1] - SeriesTimes[i] = 1

\* exactly two chunks, the second starting at the sample after the gap
SplitAtTheGap ==
    /\ Len(Chunks) = 2
    /\ SeriesTimes[Ranges[2][1] + 1] - SeriesTimes[Ranges[2][1]] = 10

\* C14 as stated: a new chunk starts at index i >= 1 exactly when the delta
\* before i deviates from the nominal interval m by more than 50 % of m, the
\* chunks number one more than those indices, each chunk starts at the stamp
\* of its first sample, and every series at 1 s spacing with a single 10 s
\* gap gives exactly two chunks split at the gap.
C14_SplitsAtDeviations ==
    (IsStreams /\ IsSeries /\ Len(SeriesTimes) >= 2) =>
        /\ FollowsGapRule
        /\ IsOneGapSeries => SplitAtTheGap

\* C14 amended: the same rule, and a series at 1 s spacing with a single
\* 10 s gap whose nominal interval is 1 s gives exactly two chunks split at
\* the gap.
C14_SplitsAtDeviationsOfNominal ==
    (IsStreams /\ IsSeries /\ Len(SeriesTimes) >= 2) =>
        /\ FollowsGapRule
        /\ (IsOneGapSeries /\ Nominal = 1) => SplitAtTheGap

C14_Witness ==
    /\ IsStreams /\ IsSeries /\ Len(SeriesTimes) = 4
    /\ IsOneGapSeries /\ Nominal = 1
    /\ SplitAtTheGap
    /\ Ranges = << <<0, 1>>, <<2, 3>> >>

\* C18: with fewer than 2 timestamps convert_to_streams fails with a
\* ValueError and gives no chunks, never an empty or one-sample chunk list.
C18_TooFewSamplesFail ==
    (IsStreams /\ Len(call.args[1].datetime) < 2) =>
        call.out.exc = "ValueError" /\ Chunks = <<>>

C18_Witness ==
    /\ IsStreams /\ IsSeries
    /\ Len(call.args[1].datetime) = 1
    /\ call.out.exc = "ValueError"

\* C15: every connection handler eventually closes its connection, exactly
\* once, on every path: after the response was written, after recv or decode
\* raised, after request processing raised, after the write raised.
C15_HandlerClosesOnce ==
    /\ [](\A c \in DOMAIN conns :
            /\ conns[c].closes <= 1
            /\ conns[c].pc = "done" <=> conns[c].closes = 1)
    /\ \A c \in 1..MaxConns :
         [](c \in DOMAIN conns =>
              <>(c \in DOMAIN conns /\ conns[c].pc = "done" /\ conns[c].closes = 1))

\* closed handlers of three paths side by side would need three connections;
\* here: one closed after a failed write, one closed after processing raised
C15_Witness ==
    /\ Len(conns) = 2
    /\ conns[1].pc = "done" /\ conns[1].closes = 1 /\ conns[1].failed = "send"
    /\ conns[2].pc = "done" /\ conns[2].closes = 1 /\ conns[2].failed = "process"

(* Properties of the listener *)

\* C16 On a started server stop() closes the listening socket, the accept
\* loop then ends, and stop() returns only after the listener thread has
\* ended: once stop() is called, in every interleaving the loop ends and
\* stop() returns.
C16_StopEndsTheLoop ==
    /\ [](server.stop = "done" => ~server.open /\ server.loop = "dead")
    /\ [](server.stop # "none" => <>(server.loop = "dead"))
    /\ [](server.stop # "none" => <>(server.stop = "done"))

\* the handlers that have not ended
Active == { c \in DOMAIN conns : conns[c].pc # "done" }

\* C17 The accept loop hands each accepted connection to a new handler and
\* goes back to accepting without waiting for a handler: whatever the
\* handlers are doing, the listener can take its next step, a blocked
\* accept() can return the next connection, and the handler of a later
\* connection can take its steps.
C17_AcceptsBesideHandlers ==
    /\ server.loop \in { "while", "accept", "start" } => ENABLED LoopStep
    /\ server.loop = "blocked" /\ server.open /\ Len(conns) < MaxConns
         => ENABLED (\E request \in ListenRequests : AcceptReturns(request))
    /\ \A c \in Active : ENABLED HandlerStep(c)

\* the first handler still waits for its request, a later connection was
\* served and closed, all other connections have a handler at work, and the
\* listener is back in accept()
C17_Witness ==
    /\ Len(conns) = MaxConns
    /\ conns[1].pc = "recv"
    /\ conns[2].pc = "done" /\ conns[2].sent = <<conns[2].response>>
    /\ conns[2].closes = 1 /\ conns[2].failed = "none"
    /\ \A c \in DOMAIN conns : c # 2 => c \in Active
    /\ server.loop = "while" /\ server.running


\* twice the median of a non-empty list of deltas: the middle one of the
\* sorted deltas counted twice, or the sum of the two middle ones
TwiceMedian(dts) ==
    LET sorted == SortTimes(dts)
        n == Len(dts)
    IN  IF n % 2 = 1 THEN 2 * sorted[(n + 1) \div 2]
        ELSE sorted[n \div 2] + sorted[(n \div 2) + 1]

\* C21: the delta recorded in every chunk is the median of the deltas of
\* consecutive samples of the whole series, for an odd and for an even
\* number of deltas, and all chunks of one call carry the same delta.
C21_DeltaIsMedian ==
    (IsStreams /\ IsSeries /\ Len(SeriesTimes) >= 2 /\ call.out.exc = "none") =>
        \A c \in 1..Len(Chunks) :
            /\ Chunks[c].delta = Chunks[1].delta
            /\ 2 * Chunks[c].delta = TwiceMedian(Deltas(SeriesTimes))

\* C22: stop() does not wait for the handlers: with the listener thread
\* ended the join returns whatever the handlers are doing, and a handler
\* that is still at work when stop() has returned runs on to its end and
\* closes its connection once.
C22_StopLeavesHandlers ==
    /\ [](server.stop = "join" /\ server.loop = "dead" => ENABLED StopJoin)
    /\ \A c \in 1..MaxConns :
         [](c \in DOMAIN conns /\ server.stop = "done"
              => <>(c \in DOMAIN conns /\ conns[c].pc = "done"
                                       /\ conns[c].closes = 1))

\* stop() has returned, the socket is closed and the listener has ended,
\* while a handler has its request and has written no response yet
C22_Witness ==
    /\ server.stop = "done" /\ ~server.open /\ server.loop = "dead"
    /\ \E c \in DOMAIN conns :
         /\ conns[c].pc = "process"
         /\ conns[c].sent = <<>>
         /\ conns[c].closes = 0

\* the handlers that have computed a response
Answered == { c \in DOMAIN conns : conns[c].failed \in { "none", "send" }
                                   /\ conns[c].pc \in { "send", "finally", "done" } }

C24_ExchangeEnds ==
    /\ [](client.pc # "none" => <>ClientEnded)
    /\ [](Len(conns) = 1 => <>(Len(conns) = 1 /\ conns[1].closes = 1))
    /\ [](client.pc = "returned" =>
            /\ conns[1].closes = 1
            /\ client.out.exc = "none"
            /\ client.out.val = Concat(conns[1].sent))
    /\ [](client.pc = "raised" => client.out.exc = "ConnectionError")

\* the handler got the whole request and wrote its response, which the
\* client read in two chunks before the close ended its loop
C24_Witness ==
    /\ client.pc = "returned"
    /\ conns[1].data = client.request
    /\ conns[1].failed = "none"
    /\ Len(client.chunks) = 2
    /\ client.out.val = conns[1].response
    /\ client.out.val # <<>>

\* C26: a request that fits the handler's read buffer is decoded in full:
\* however the connection delivers what sendall wrote, the data the
\* handler's one recv returns, and _process_request is given, is the request.
C26_RequestDecodedInFull ==
    (Len(conns) = 1 /\ conns[1].pc # "recv" /\ conns[1].failed # "recv")
        => conns[1].data = client.request

----------------------------------------------------------------------------
(* Properties of the lifecycle calls, under SpecLife *)

\* the listener thread is alive
Alive == server.loop \notin { "none", "dead" }

\* C25: whenever no call of start(), stop() or restart() is in progress,
\* self.running, "self.sock is not None" and "the listener thread is alive"
\* agree, whatever calls, accept-loop steps and accept faults came before;
\* and a stop() that finds no socket leaves the server as it found it and
\* raises nothing.
C25_LifecycleFactsAgree ==
    /\ call = Idle =>
          /\ server.running <=> server.sock # "None"
          /\ server.running <=> Alive
    /\ (call.op = "stop" /\ server.stop = "done" /\ call.args[1].sock = "None") =>
          /\ [server EXCEPT !.stop = "none"] = call.args[1]
          /\ call.out.exc = "none"
====
